---------------------------- MODULE Spec2Model ----------------------------
(***************************************************************************)
(* Verification model of kiban-agent-kit: the Uniswap V3 swap service      *)
(* (getSwapQuote / swapTokens), the token helpers it relies on and the     *)
(* LangChain tool wrappers.                                                *)
(*                                                                         *)
(* Strings are sequences of one-character strings, so that toUpperCase,    *)
(* === on strings, parseUnits and formatUnits are computed character by    *)
(* character as the JavaScript does.  bigint values are integers.          *)
(* A slippagePercentage is held in thousandths of a percent (0.5 is 500),  *)
(* which is exact for every value used here.  An optional parameter is a   *)
(* sequence: <<>> when omitted, <<v>> when given.                          *)
(***************************************************************************)
EXTENDS Integers, Sequences, FiniteSets, TLC

VARIABLES
  pureIn,     \* input record of the pure-function specification
  pureOut,    \* its result, "pending" before the function has been applied
  pc,         \* position inside the running service call
  op,         \* entry point of the running call: getSwapQuote or swapTokens
  params,     \* SwapParams of the running call
  qv,         \* locals of getSwapQuote
  sv,         \* locals of swapTokens
  calls,      \* contract calls issued by the running call, in order
  chain,      \* on-chain state the call reads and changes
  outcome,    \* what the call returned or threw
  tool        \* state of a LangChain tool invocation

vars == <<pureIn, pureOut, pc, op, params, qv, sv, calls, chain, outcome, tool>>

-----------------------------------------------------------------------------
(* Bounds of the model *)

\* longest amount string drawn as input of the unit conversions
MaxAmountLen == 4
\* largest decimals count a token contract reports
MaxDecimals == 2

-----------------------------------------------------------------------------
(* Characters and strings *)

Lowers ==
  <<"a","b","c","d","e","f","g","h","i","j","k","l","m",
    "n","o","p","q","r","s","t","u","v","w","x","y","z">>

Uppers ==
  <<"A","B","C","D","E","F","G","H","I","J","K","L","M",
    "N","O","P","Q","R","S","T","U","V","W","X","Y","Z">>

DigitChars == <<"0","1","2","3","4","5","6","7","8","9">>

IsLower(c) == \E i \in 1..26 : Lowers[i] = c

IsUpper(c) == \E i \in 1..26 : Uppers[i] = c

IsDigit(c) == \E i \in 1..10 : DigitChars[i] = c

UpperChar(c) ==
  IF IsLower(c) THEN Uppers[CHOOSE i \in 1..26 : Lowers[i] = c] ELSE c

LowerChar(c) ==
  IF IsUpper(c) THEN Lowers[CHOOSE i \in 1..26 : Uppers[i] = c] ELSE c

\* String.prototype.toUpperCase
toUpperCase(s) == [i \in 1..Len(s) |-> UpperChar(s[i])]

\* String.prototype.toLowerCase
toLowerCase(s) == [i \in 1..Len(s) |-> LowerChar(s[i])]

DigitVal(c) == (CHOOSE i \in 1..10 : DigitChars[i] = c) - 1

RECURSIVE Pow10(_)
\* 10 ** n
Pow10(n) == IF n = 0 THEN 1 ELSE 10 * Pow10(n - 1)

RECURSIVE DigitsToInt(_)
\* BigInt("<digits>"); BigInt("") is 0n
DigitsToInt(s) ==
  IF Len(s) = 0 THEN 0
  ELSE 10 * DigitsToInt(SubSeq(s, 1, Len(s) - 1)) + DigitVal(s[Len(s)])

RECURSIVE IntToDigits(_)
\* (n).toString() for n >= 0
IntToDigits(n) ==
  IF n < 10 THEN <<DigitChars[n + 1]>>
  ELSE IntToDigits(n \div 10) \o <<DigitChars[(n % 10) + 1]>>

RECURSIVE TrimTrailingZeros(_)
\* s.replace(/(0+)$/, "")
TrimTrailingZeros(s) ==
  IF Len(s) > 0 /\ s[Len(s)] = "0"
  THEN TrimTrailingZeros(SubSeq(s, 1, Len(s) - 1))
  ELSE s

\* s.padStart(n, "0")
PadStart0(s, n) ==
  IF Len(s) >= n THEN s ELSE [i \in 1..(n - Len(s)) |-> "0"] \o s

\* s.padEnd(n, "0")
PadEnd0(s, n) ==
  IF Len(s) >= n THEN s ELSE s \o [i \in 1..(n - Len(s)) |-> "0"]

-----------------------------------------------------------------------------
(* Token symbols and addresses *)

ETH_SYM == <<"E","T","H">>
WETH_SYM == <<"W","E","T","H">>
USDC_SYM == <<"U","S","D","C">>
USDT_SYM == <<"U","S","D","T">>
DAI_SYM == <<"D","A","I">>

UNISWAP_V3_ROUTER ==
  <<"0","x","E","5","9","2","4","2","7","A","0","A","E","c","e","9","2","D",
    "e","3","E","d","e","e","1","F","1","8","E","0","1","5","7","C","0","5",
    "8","6","1","5","6","4">>

UNISWAP_V3_QUOTER ==
  <<"0","x","b","2","7","3","0","8","f","9","F","9","0","D","6","0","7","4",
    "6","3","b","b","3","3","e","A","1","B","e","B","b","4","1","C","2","7",
    "C","E","5","A","B","6">>

COMMON_TOKENS ==
  [ETH |->
     <<"0","x","E","e","e","e","e","E","e","e","e","E","e","E","e","e","E",
       "e","E","e","E","e","e","E","E","E","e","e","e","e","E","e","e","e",
       "e","e","e","e","E","E","e","E">>,
   WETH |->
     <<"0","x","C","0","2","a","a","A","3","9","b","2","2","3","F","E","8",
       "D","0","A","0","e","5","C","4","F","2","7","e","A","D","9","0","8",
       "3","C","7","5","6","C","c","2">>,
   USDC |->
     <<"0","x","A","0","b","8","6","9","9","1","c","6","2","1","8","b","3",
       "6","c","1","d","1","9","D","4","a","2","e","9","E","b","0","c","E",
       "3","6","0","6","e","B","4","8">>,
   USDT |->
     <<"0","x","d","A","C","1","7","F","9","5","8","D","2","e","e","5","2",
       "3","a","2","2","0","6","2","0","6","9","9","4","5","9","7","C","1",
       "3","D","8","3","1","e","c","7">>,
   DAI |->
     <<"0","x","6","B","1","7","5","4","7","4","E","8","9","0","9","4","C",
       "4","4","D","a","9","8","b","9","5","4","E","e","d","e","A","C","4",
       "9","5","2","7","1","d","0","F">>]

\* normalizeTokenAddress with the toUpperCase call left out
normalizeTokenAddress_caseSensitive(token) ==
  IF token = ETH_SYM THEN COMMON_TOKENS.ETH
  ELSE IF token = WETH_SYM THEN COMMON_TOKENS.WETH
  ELSE IF token = USDC_SYM THEN COMMON_TOKENS.USDC
  ELSE IF token = USDT_SYM THEN COMMON_TOKENS.USDT
  ELSE IF token = DAI_SYM THEN COMMON_TOKENS.DAI
  ELSE token

\* SwapService.normalizeTokenAddress
normalizeTokenAddress(token) ==
  LET upperToken == toUpperCase(token) IN
  IF upperToken = ETH_SYM THEN COMMON_TOKENS.ETH
  ELSE IF upperToken = WETH_SYM THEN COMMON_TOKENS.WETH
  ELSE IF upperToken = USDC_SYM THEN COMMON_TOKENS.USDC
  ELSE IF upperToken = USDT_SYM THEN COMMON_TOKENS.USDT
  ELSE IF upperToken = DAI_SYM THEN COMMON_TOKENS.DAI
  ELSE token

-----------------------------------------------------------------------------
(* viem unit conversions, as called by the swap service *)

\* viem's /^(-?)([0-9]*)\.?([0-9]*)$/ test on the amount string
IsDecimalString(s) ==
  LET body == IF Len(s) > 0 /\ s[1] = "-" THEN Tail(s) ELSE s IN
  /\ \A i \in 1..Len(body) : IsDigit(body[i]) \/ body[i] = "."
  /\ Cardinality({i \in 1..Len(body) : body[i] = "."}) <= 1

\* index of the "." in s, 0 when there is none
DotPos(s) ==
  IF \E i \in 1..Len(s) : s[i] = "."
  THEN CHOOSE i \in 1..Len(s) : s[i] = "."
  ELSE 0

\* parseUnits(value, decimals): the bigint, or a thrown error.
\* Excess fractional digits are rounded half up, never rejected.
parseUnits(value, decimals) ==
  IF ~IsDecimalString(value) THEN [ok |-> FALSE, val |-> 0]
  ELSE
    LET dot == DotPos(value)
        integerRaw == IF dot = 0 THEN value ELSE SubSeq(value, 1, dot - 1)
        fractionRaw == IF dot = 0 THEN <<"0">>
                       ELSE SubSeq(value, dot + 1, Len(value))
        negative == Len(integerRaw) > 0 /\ integerRaw[1] = "-"
        integer == IF negative THEN Tail(integerRaw) ELSE integerRaw
        fraction == TrimTrailingZeros(fractionRaw)
        sign(n) == IF negative THEN 0 - n ELSE n
    IN
    IF decimals = 0 THEN
      LET roundUp == Len(fraction) > 0 /\ DigitVal(fraction[1]) >= 5 IN
      IF roundUp THEN [ok |-> TRUE, val |-> sign(DigitsToInt(integer) + 1)]
      ELSE IF negative /\ Len(integer) = 0
           THEN [ok |-> FALSE, val |-> 0]       \* BigInt("-") throws
           ELSE [ok |-> TRUE, val |-> sign(DigitsToInt(integer))]
    ELSE IF Len(fraction) > decimals THEN
      LET left == SubSeq(fraction, 1, decimals - 1)
          unit == fraction[decimals]
          right == SubSeq(fraction, decimals + 1, Len(fraction))
          rounded == DigitVal(unit) + (IF DigitVal(right[1]) >= 5 THEN 1 ELSE 0)
          fraction1 == IF rounded > 9
                       THEN PadStart0(IntToDigits(DigitsToInt(left) + 1) \o <<"0">>,
                                      Len(left) + 1)
                       ELSE left \o <<DigitChars[rounded + 1]>>
          carry == Len(fraction1) > decimals
          integer2 == IF carry THEN DigitsToInt(integer) + 1
                      ELSE DigitsToInt(integer)
          fraction2 == IF carry THEN Tail(fraction1) ELSE fraction1
          fraction3 == SubSeq(fraction2, 1, decimals)
      IN [ok |-> TRUE,
          val |-> sign(integer2 * Pow10(decimals) + DigitsToInt(fraction3))]
    ELSE
      [ok |-> TRUE,
       val |-> sign(DigitsToInt(integer) * Pow10(decimals)
                    + DigitsToInt(PadEnd0(fraction, decimals)))]

\* formatUnits(value, decimals): the decimal string of a bigint
formatUnits(value, decimals) ==
  LET negative == value < 0
      display == PadStart0(IntToDigits(IF negative THEN 0 - value ELSE value),
                           decimals)
      integer == SubSeq(display, 1, Len(display) - decimals)
      fraction == TrimTrailingZeros(
                    SubSeq(display, Len(display) - decimals + 1, Len(display)))
  IN (IF negative THEN <<"-">> ELSE <<>>)
     \o (IF Len(integer) = 0 THEN <<"0">> ELSE integer)
     \o (IF Len(fraction) = 0 THEN <<>> ELSE <<".">> \o fraction)

-----------------------------------------------------------------------------
(* Slippage arithmetic of getSwapQuote *)

\* the default of the destructuring: slippagePercentage = 0.5
DefaultSlippage == 500

\* slippagePercentage after the destructuring default, in 1/1000 percent
EffectiveSlippage(slippagePercentage) ==
  IF slippagePercentage = <<>> THEN DefaultSlippage
  ELSE slippagePercentage[1]

\* Math.floor in place of Math.round
SlippageBps_floor(slippage) == slippage \div 10

\* Math.round(slippagePercentage * 100): nearest basis point, halves up
SlippageBps(slippage) == (slippage + 5) \div 10

\* bigint (a * m) / 10000n.  bigint division truncates toward zero; the
\* product is taken limb by limb (base 10000) to stay inside TLC's integers.
MulDiv10000(a, m) ==
  LET absA == IF a < 0 THEN 0 - a ELSE a
      absM == IF m < 0 THEN 0 - m ELSE m
      t == (absA \div 10000) * absM + ((absA % 10000) * absM) \div 10000
  IN IF (a < 0) # (m < 0) THEN 0 - t ELSE t

\* minimumAmountOut of getSwapQuote, in base units
MinimumAmountOut(amountOut, slippage) ==
  MulDiv10000(amountOut, 10000 - SlippageBps(slippage))

-----------------------------------------------------------------------------
(* Inputs of the pure-function specification *)

\* every upper/lower-case spelling of an upper-case symbol
CaseSpellings(sym) ==
  { [i \in 1..Len(sym) |-> IF b[i] THEN sym[i] ELSE LowerChar(sym[i])] :
      b \in [1..Len(sym) -> BOOLEAN] }

SupportedSymbols == {ETH_SYM, WETH_SYM, USDC_SYM, USDT_SYM, DAI_SYM}

\* a token contract that is not in COMMON_TOKENS (UNI)
OTHER_TOKEN ==
  <<"0","x","1","f","9","8","4","0","a","8","5","d","5","a","F","5","b","f",
    "1","D","1","7","6","2","F","9","2","5","B","D","A","D","d","C","4","2",
    "0","1","F","9","8","4">>

\* a string that is neither a recognized symbol nor an address
BOGUS_TOKEN == <<"F","O","O">>

NormalizeInputs ==
  UNION {CaseSpellings(sym) : sym \in SupportedSymbols}
  \cup {COMMON_TOKENS.ETH, toLowerCase(COMMON_TOKENS.ETH), COMMON_TOKENS.WETH,
        COMMON_TOKENS.USDC, OTHER_TOKEN, toLowerCase(OTHER_TOKEN),
        BOGUS_TOKEN, <<"E","T">>, <<"E","T","H","x">>, <<>>}

AmountChars == {"0", "1", "5", "9", ".", "-"}

\* every string over AmountChars of at most MaxAmountLen characters
AmountStrings == UNION {[1..n -> AmountChars] : n \in 0..MaxAmountLen}

\* quoter answers, in base units of tokenOut
AmountOuts == {0, 1, 199, 10000, 1000000}

\* slippagePercentage values, in 1/1000 percent
SlippageValues == {0, 1, 4, 5, 14, 15, 500, 1000, 99990, 100000, 101000,
                   150000, 0 - 4, 0 - 5, 0 - 500}

\* an optional number: <<>> when omitted, <<v>> when given
Slippages == {<<>>} \cup {<<v>> : v \in SlippageValues}

PureInputs ==
  [fn : {"normalize"}, token : NormalizeInputs]
  \cup [fn : {"roundtrip"}, amount : AmountStrings, decimals : 0..MaxDecimals]
  \cup [fn : {"slippage"}, amountOut : AmountOuts,
        slippagePercentage : Slippages, decimals : 0..MaxDecimals]

-----------------------------------------------------------------------------
(* State of an idle service and of an idle tool *)

NoParams ==
  [tokenIn |-> <<>>, tokenOut |-> <<>>, amount |-> <<>>,
   slippagePercentage |-> <<>>, recipient |-> <<>>]

NoLocals == [set |-> FALSE]

NoOutcome == [kind |-> "none"]

NoTool == [status |-> "idle"]

NoChain == [allowance |-> 0, pendingApproval |-> <<>>, now |-> 0]

ServiceIdle ==
  /\ pc = "idle"
  /\ op = "none"
  /\ params = NoParams
  /\ qv = NoLocals
  /\ sv = NoLocals
  /\ calls = <<>>
  /\ chain = NoChain
  /\ outcome = NoOutcome

-----------------------------------------------------------------------------
(* Specification of the pure functions: normalizeTokenAddress, the amount  *)
(* conversion of getSwapQuote and its slippage arithmetic                  *)

InitPure ==
  /\ pureIn \in PureInputs
  /\ pureOut = [status |-> "pending"]
  /\ ServiceIdle
  /\ tool = NoTool

\* normalizeTokenAddress(token), as called at the head of getSwapQuote
ApplyNormalize ==
  /\ pureIn.fn = "normalize"
  /\ pureOut.status = "pending"
  /\ pureOut' = [status |-> "returned",
                 address |-> normalizeTokenAddress(pureIn.token)]
  /\ UNCHANGED <<pureIn, pc, op, params, qv, sv, calls, chain, outcome, tool>>

\* getSwapQuote: amountIn = parseUnits(amount, decimals) and
\* formattedAmountIn = formatUnits(amountIn, decimals)
ApplyRoundTrip ==
  /\ pureIn.fn = "roundtrip"
  /\ pureOut.status = "pending"
  /\ LET amountIn == parseUnits(pureIn.amount, pureIn.decimals) IN
     pureOut' =
       IF ~amountIn.ok THEN [status |-> "threw"]
       ELSE [status |-> "returned",
             amountIn |-> amountIn.val,
             formattedAmountIn |-> formatUnits(amountIn.val, pureIn.decimals)]
  /\ UNCHANGED <<pureIn, pc, op, params, qv, sv, calls, chain, outcome, tool>>

\* getSwapQuote: minimumAmountOut from the quoter's amountOut, and the
\* formatted amounts of the returned quote
ApplySlippage ==
  /\ pureIn.fn = "slippage"
  /\ pureOut.status = "pending"
  /\ LET slippage == EffectiveSlippage(pureIn.slippagePercentage)
         minimumAmountOut == MinimumAmountOut(pureIn.amountOut, slippage)
     IN pureOut' =
          [status |-> "returned",
           minimumAmountOutRaw |-> minimumAmountOut,
           amount |-> formatUnits(pureIn.amountOut, pureIn.decimals),
           minimumAmountOut |-> formatUnits(minimumAmountOut, pureIn.decimals)]
  /\ UNCHANGED <<pureIn, pc, op, params, qv, sv, calls, chain, outcome, tool>>

NextPure == ApplyNormalize \/ ApplyRoundTrip \/ ApplySlippage

SpecPure == InitPure /\ [][NextPure]_vars

-----------------------------------------------------------------------------
(* The chain and the wallet, as the service sees them *)

\* this.agent.getAddress(): the address of the configured account
ACCOUNT ==
  <<"0","x","f","3","9","F","d","6","e","5","1","a","a","d","8","8","F","6",
    "F","4","c","e","6","a","B","8","8","2","7","2","7","9","c","f","f","F",
    "b","9","2","2","6","6">>

\* an address a caller may pass as recipient
OTHER_RECIPIENT ==
  <<"0","x","7","0","9","9","7","9","7","0","C","5","1","8","1","2","d","c",
    "3","A","0","1","0","C","7","d","0","1","b","5","0","e","0","d","1","7",
    "d","c","7","9","C","8">>

HexChars ==
  {"0","1","2","3","4","5","6","7","8","9",
   "a","b","c","d","e","f","A","B","C","D","E","F"}

\* the addresses in their EIP-55 checksum spelling
ChecksumAddresses ==
  {COMMON_TOKENS.ETH, COMMON_TOKENS.WETH, COMMON_TOKENS.USDC,
   COMMON_TOKENS.USDT, COMMON_TOKENS.DAI, UNISWAP_V3_ROUTER,
   UNISWAP_V3_QUOTER, OTHER_TOKEN, ACCOUNT, OTHER_RECIPIENT}

\* viem isAddress: 0x and 40 hex digits, all lower case or checksummed
isAddress_any(a) == TRUE

isAddress(a) ==
  /\ Len(a) = 42
  /\ a[1] = "0"
  /\ a[2] = "x"
  /\ \A i \in 3..42 : a[i] \in HexChars
  /\ (toLowerCase(a) = a \/ a \in ChecksumAddresses)

\* the ERC20 contracts deployed on the chain; an address names its contract
\* whatever its letter case
TokenContracts ==
  {toLowerCase(COMMON_TOKENS.WETH), toLowerCase(COMMON_TOKENS.USDC),
   toLowerCase(OTHER_TOKEN)}

HasToken(a) == toLowerCase(a) \in TokenContracts

\* symbol() of the contract at a
SymbolOf(a) ==
  IF toLowerCase(a) = toLowerCase(COMMON_TOKENS.WETH) THEN WETH_SYM
  ELSE IF toLowerCase(a) = toLowerCase(COMMON_TOKENS.USDC) THEN USDC_SYM
  ELSE <<"U","N","I">>

\* decimals() of the contract at a
DecimalsOf(a) ==
  IF toLowerCase(a) = toLowerCase(COMMON_TOKENS.USDC) THEN MaxDecimals - 1
  ELSE MaxDecimals

\* a contract call or transaction handed to the chain client
Call(api, address, functionName, args, value) ==
  [api |-> api, address |-> address, functionName |-> functionName,
   args |-> args, value |-> value]

\* an Error with the given message: wrappers prepended to an underlying cause
Err(prefix, cause) == [prefix |-> prefix, cause |-> cause]

\* ways a call to the RPC node can fail
RpcFailures == {"rpc failure"}

\* ways the submission of a transaction can fail
WriteFailures == {"rpc failure", "insufficient funds"}

\* hash of the approval transaction and of the router transaction
APPROVE_TX == "approveTx"

SWAP_TX == "swapTx"

\* tokenTools.checkToken(address) with r the answer of the node: the four
\* reads of Promise.all, or the early throw for a string that is no address
checkToken(address, r) ==
  IF ~isAddress(address)
  THEN [ok |-> FALSE, calls |-> <<>>,
        error |-> Err(<<>>, "Token address lookup not implemented yet")]
  ELSE
    LET reads ==
          <<Call("readContract", address, "name", [account |-> <<>>], <<>>),
            Call("readContract", address, "symbol", [account |-> <<>>], <<>>),
            Call("readContract", address, "decimals", [account |-> <<>>], <<>>),
            Call("readContract", address, "balanceOf",
                 [account |-> ACCOUNT], <<>>)>>
    IN IF ~HasToken(address)
       THEN [ok |-> FALSE, calls |-> reads,
             error |-> Err(<<>>, "returned no data")]
       ELSE IF r # "ok"
       THEN [ok |-> FALSE, calls |-> reads, error |-> Err(<<>>, r)]
       ELSE [ok |-> TRUE, calls |-> reads,
             info |-> [address |-> address, symbol |-> SymbolOf(address),
                       decimals |-> DecimalsOf(address)]]

-----------------------------------------------------------------------------
(* Inputs of the swap service *)

SwapTokenInputs ==
  {ETH_SYM, <<"u","s","d","c">>, COMMON_TOKENS.WETH,
   toLowerCase(COMMON_TOKENS.ETH), BOGUS_TOKEN}

SwapAmountInputs ==
  {<<"1">>, <<"0",".","1","5">>, <<"-","1">>, <<"x">>}

SwapSlippageInputs == {<<>>, <<0>>, <<150000>>}

SwapRecipientInputs == {<<>>, OTHER_RECIPIENT}

SwapParamsInputs ==
  [tokenIn : SwapTokenInputs, tokenOut : SwapTokenInputs,
   amount : SwapAmountInputs, slippagePercentage : SwapSlippageInputs,
   recipient : SwapRecipientInputs]

\* allowance(ACCOUNT, router) on the tokenIn contract before the call
AllowanceInputs == {0, 15, 100}

\* answers of the quoter contract
QuoterAnswers == {0, 1, 1000}

-----------------------------------------------------------------------------
(* The swap service: getSwapQuote and swapTokens, one action per await *)

\* formatEther / parseEther scale
ETHER_DECIMALS == 18

\* the Uniswap fee tier used by both calls
FEE == 3000

\* 60 * 20 seconds
DEADLINE_SECONDS == 1200

NoInfo == [address |-> <<>>, symbol |-> <<>>, decimals |-> 0]

NoError == Err(<<>>, "none")

Init ==
  /\ pureIn = [fn |-> "none"]
  /\ pureOut = [status |-> "none"]
  /\ pc = "idle"
  /\ op = "none"
  /\ params = NoParams
  /\ qv = NoLocals
  /\ sv = NoLocals
  /\ calls = <<>>
  /\ chain \in [allowance : AllowanceInputs, pendingApproval : {<<>>},
                now : {0}]
  /\ outcome = NoOutcome
  /\ tool = NoTool

\* the writes every step of the service makes
Step(pc2, qv2, sv2, newCalls, chain2, outcome2) ==
  /\ pc' = pc2
  /\ qv' = qv2
  /\ sv' = sv2
  /\ calls' = calls \o newCalls
  /\ chain' = chain2
  /\ outcome' = outcome2
  /\ UNCHANGED <<pureIn, pureOut, op, params, tool>>

\* an error leaves the running call
Throw(qv2, sv2, newCalls, chain2, error) ==
  Step("done", qv2, sv2, newCalls, chain2, [kind |-> "threw", error |-> error])

\* the catch block of swapTokens: an "insufficient funds" message is
\* answered after reading the native balance, anything else is re-thrown
\* at once behind "Failed to execute swap: "
Catch_retryOnce(newCalls, chain2, error) ==
  IF sv.error = NoError
  THEN Step("s_router", qv, [sv EXCEPT !.error = error], newCalls, chain2,
            outcome)
  ELSE Throw(qv, sv, newCalls, chain2,
             Err(<<"Failed to execute swap: ">> \o error.prefix, error.cause))

Catch(newCalls, chain2, error) ==
  IF error.cause = "insufficient funds"
  THEN Step("s_catch", qv, [sv EXCEPT !.error = error], newCalls, chain2,
            outcome)
  ELSE Throw(qv, [sv EXCEPT !.error = error], newCalls, chain2,
             Err(<<"Failed to execute swap: ">> \o error.prefix, error.cause))

\* swapTokens reads the allowance for every tokenIn but ETH
NeedsAllowanceCheck_never(isETHIn) == FALSE

NeedsAllowanceCheck(isETHIn) == ~isETHIn

\* swapTokens approves when the allowance falls short of amountIn
NeedsApproval_orEqual(allowance, amountIn) == allowance <= amountIn

NeedsApproval(allowance, amountIn) == allowance < amountIn

\* the arguments of approve(spender, amount); an unlimited approval would
\* ask for the largest amount
ApproveArgs_unlimited(spender, amount) ==
  [spender |-> spender, amount |-> 2147483647]

ApproveArgs(spender, amount) == [spender |-> spender, amount |-> amount]

\* the native value attached to the router call
RouterValue_never(isETHIn, amountIn) == <<>>

RouterValue(isETHIn, amountIn) == IF isETHIn THEN <<amountIn>> ELSE <<>>

\* the recipient of the router call: the output of a swap to ETH always goes
\* to the caller
RouterRecipient_asGiven(isETHOut, recipientAddress) == recipientAddress

RouterRecipient(isETHOut, recipientAddress) ==
  IF isETHOut THEN ACCOUNT ELSE recipientAddress

\* getSwapQuote(p), called by itself or as the first statement of
\* swapTokens(p): the synchronous head of getSwapQuote
Begin(o, p) ==
  /\ op' = o
  /\ params' = p
  /\ LET normalizedTokenIn == normalizeTokenAddress(p.tokenIn)
         normalizedTokenOut == normalizeTokenAddress(p.tokenOut)
     IN qv' = [set |-> TRUE,
               normalizedTokenIn |-> normalizedTokenIn,
               normalizedTokenOut |-> normalizedTokenOut,
               isETHIn |-> normalizedTokenIn = COMMON_TOKENS.ETH,
               isETHOut |-> normalizedTokenOut = COMMON_TOKENS.ETH,
               tokenInInfo |-> NoInfo,
               tokenOutInfo |-> NoInfo,
               amountIn |-> 0,
               amountOut |-> 0]
  /\ pc' = "q_tokenIn"

\* a caller invokes getSwapQuote(p) or swapTokens(p)
Invoke(o, p) ==
  /\ pc = "idle"
  /\ tool = NoTool
  /\ pureIn = [fn |-> "none"]
  /\ Begin(o, p)
  /\ UNCHANGED <<pureIn, pureOut, sv, calls, chain, outcome, tool>>

\* getSwapQuote: await getTokenInfo(tokenIn or WETH)
QuoteTokenIn(r) ==
  /\ pc = "q_tokenIn"
  /\ LET res == checkToken(IF qv.isETHIn THEN COMMON_TOKENS.WETH
                           ELSE qv.normalizedTokenIn, r)
     IN IF res.ok
        THEN Step("q_tokenOut", [qv EXCEPT !.tokenInInfo = res.info], sv,
                  res.calls, chain, outcome)
        ELSE Throw(qv, sv, res.calls, chain, res.error)

\* getSwapQuote: await getTokenInfo(tokenOut or WETH), then parseUnits
QuoteTokenOut(r) ==
  /\ pc = "q_tokenOut"
  /\ LET res == checkToken(IF qv.isETHOut THEN COMMON_TOKENS.WETH
                           ELSE qv.normalizedTokenOut, r)
         amountIn == parseUnits(params.amount, qv.tokenInInfo.decimals)
     IN IF ~res.ok THEN Throw(qv, sv, res.calls, chain, res.error)
        ELSE IF ~amountIn.ok
        THEN Throw([qv EXCEPT !.tokenOutInfo = res.info], sv, res.calls, chain,
                   Err(<<>>, "invalid decimal number"))
        ELSE Step("q_quoter",
                  [qv EXCEPT !.tokenOutInfo = res.info,
                             !.amountIn = amountIn.val],
                  sv, res.calls, chain, outcome)

\* the SwapQuote built from the quoter's answer.  executionPrice, a Number
\* printed with toFixed(6), is left out: it never throws and nothing reads it.
QuoteOf(amountOut) ==
  LET minimumAmountOut ==
        MinimumAmountOut(amountOut, EffectiveSlippage(params.slippagePercentage))
  IN [tokenIn |-> [address |-> qv.normalizedTokenIn,
                   symbol |-> qv.tokenInInfo.symbol,
                   decimals |-> qv.tokenInInfo.decimals,
                   amount |-> formatUnits(qv.amountIn, qv.tokenInInfo.decimals)],
      tokenOut |-> [address |-> qv.normalizedTokenOut,
                    symbol |-> qv.tokenOutInfo.symbol,
                    decimals |-> qv.tokenOutInfo.decimals,
                    amount |-> formatUnits(amountOut, qv.tokenOutInfo.decimals)],
      minimumAmountOut |-> formatUnits(minimumAmountOut,
                                       qv.tokenOutInfo.decimals),
      priceImpact |-> "< 1%"]

\* getSwapQuote called by itself returns the quote to the caller; called by
\* swapTokens it returns to line 251
ReturnsQuote_never(o) == FALSE

ReturnsQuote(o) == o = "getSwapQuote"

\* getSwapQuote: await readContract(quoter), then the quote.  In swapTokens
\* the returned quote is followed by the second normalization.
QuoteCallQuoter(r, amountOut) ==
  /\ pc = "q_quoter"
  /\ LET call == Call("readContract", UNISWAP_V3_QUOTER,
                      "quoteExactInputSingle",
                      [tokenIn |-> IF qv.isETHIn THEN COMMON_TOKENS.WETH
                                   ELSE qv.normalizedTokenIn,
                       tokenOut |-> IF qv.isETHOut THEN COMMON_TOKENS.WETH
                                    ELSE qv.normalizedTokenOut,
                       fee |-> FEE,
                       amountIn |-> qv.amountIn,
                       sqrtPriceLimitX96 |-> 0],
                      <<>>)
         normalizedTokenIn == normalizeTokenAddress(params.tokenIn)
         normalizedTokenOut == normalizeTokenAddress(params.tokenOut)
     IN IF qv.amountIn < 0
        THEN \* a negative uint256 fails in the ABI encoder, nothing is sent
             Throw(qv, sv, <<>>, chain,
                   Err(<<"Failed to get swap quote: ">>, "integer out of range"))
        ELSE IF r # "ok"
        THEN Throw(qv, sv, <<call>>, chain,
                   Err(<<"Failed to get swap quote: ">>, r))
        ELSE IF ReturnsQuote(op)
        THEN Step("done", [qv EXCEPT !.amountOut = amountOut], sv, <<call>>,
                  chain, [kind |-> "returned", value |-> QuoteOf(amountOut)])
        ELSE Step("s_tokenIn", [qv EXCEPT !.amountOut = amountOut],
                  [set |-> TRUE,
                   quote |-> QuoteOf(amountOut),
                   normalizedTokenIn |-> normalizedTokenIn,
                   normalizedTokenOut |-> normalizedTokenOut,
                   isETHIn |-> normalizedTokenIn = COMMON_TOKENS.ETH,
                   isETHOut |-> normalizedTokenOut = COMMON_TOKENS.ETH,
                   amountIn |-> 0,
                   minimumAmountOut |-> 0,
                   deadline |-> 0,
                   recipientAddress |-> <<>>,
                   allowance |-> <<>>,
                   approval |-> <<>>,
                   txHash |-> <<>>,
                   error |-> NoError],
                  <<call>>, chain, outcome)

\* swapTokens: await getTokenInfo(tokenIn or WETH), then the amounts, the
\* deadline and the recipient
SwapTokenIn(r) ==
  /\ pc = "s_tokenIn"
  /\ LET res == checkToken(IF sv.isETHIn THEN COMMON_TOKENS.WETH
                           ELSE sv.normalizedTokenIn, r)
         amountIn == parseUnits(params.amount,
                                IF res.ok THEN res.info.decimals ELSE 0)
         minimumAmountOut == parseUnits(sv.quote.minimumAmountOut,
                                        sv.quote.tokenOut.decimals)
     IN IF ~res.ok THEN Throw(qv, sv, res.calls, chain, res.error)
        ELSE IF ~amountIn.ok \/ ~minimumAmountOut.ok
        THEN Throw(qv, sv, res.calls, chain,
                   Err(<<>>, "invalid decimal number"))
        ELSE Step(IF NeedsAllowanceCheck(sv.isETHIn) THEN "s_allowance"
                  ELSE "s_router", qv,
                  [sv EXCEPT !.amountIn = amountIn.val,
                             !.minimumAmountOut = minimumAmountOut.val,
                             !.deadline = chain.now + DEADLINE_SECONDS,
                             !.recipientAddress =
                                IF params.recipient # <<>> THEN params.recipient
                                ELSE ACCOUNT],
                  res.calls, chain, outcome)

\* the longest an await between the reading of the clock and the router
\* submission takes, in seconds
MaxDelay == 1

\* the chain dt seconds later
After(dt) == [chain EXCEPT !.now = chain.now + dt]

\* swapTokens: await getTokenAllowance(tokenIn, owner = caller, spender =
\* router); ensureAddress accepts all three.  The answer comes dt seconds
\* after the call.
SwapAllowance(r, dt) ==
  /\ pc = "s_allowance"
  /\ LET call == Call("readContract", sv.normalizedTokenIn, "allowance",
                      [owner |-> ACCOUNT, spender |-> UNISWAP_V3_ROUTER], <<>>)
     IN IF ~isAddress(sv.normalizedTokenIn)
        THEN Catch(<<>>, chain, Err(<<>>, "Invalid address"))
        ELSE IF r # "ok" THEN Catch(<<call>>, After(dt), Err(<<>>, r))
        ELSE Step(IF NeedsApproval(chain.allowance, sv.amountIn) THEN "s_approve"
                  ELSE "s_router",
                  qv, [sv EXCEPT !.allowance = <<chain.allowance>>],
                  <<call>>, After(dt), outcome)

\* swapTokens: await approveTokenSpending(tokenIn, router, amount), which is
\* tokenTools.approveSpending: checkToken, simulateContract, writeContract.
\* r is "ok" or the step that fails first, f the failure of the write; the
\* three calls take dt seconds together.
SwapApprove(r, f, dt) ==
  /\ pc = "s_approve"
  /\ LET token == checkToken(sv.normalizedTokenIn,
                             IF r = "read" THEN "rpc failure" ELSE "ok")
         amount == parseUnits(params.amount,
                              IF token.ok THEN token.info.decimals ELSE 0)
         approve(api) ==
           Call(api, sv.normalizedTokenIn, "approve",
                ApproveArgs(UNISWAP_V3_ROUTER, amount.val), <<>>)
     IN IF ~token.ok THEN Catch(token.calls, After(dt), token.error)
        ELSE IF ~amount.ok
        THEN Catch(token.calls, After(dt), Err(<<>>, "invalid decimal number"))
        ELSE IF r = "simulate"
        THEN Catch(token.calls \o <<approve("simulateContract")>>, After(dt),
                   Err(<<>>, "rpc failure"))
        ELSE IF r = "write"
        THEN Catch(token.calls \o <<approve("simulateContract"),
                                    approve("writeContract")>>,
                   After(dt), Err(<<>>, f))
        ELSE Step("s_router", qv, [sv EXCEPT !.approval = <<APPROVE_TX>>],
                  token.calls \o <<approve("simulateContract"),
                                   approve("writeContract")>>,
                  [After(dt) EXCEPT !.pendingApproval = <<amount.val>>],
                  outcome)

\* the chain mines the approval transaction
MineApproval ==
  /\ chain.pendingApproval # <<>>
  /\ chain' = [chain EXCEPT !.allowance = chain.pendingApproval[1],
                            !.pendingApproval = <<>>]
  /\ UNCHANGED <<pureIn, pureOut, pc, op, params, qv, sv, calls, outcome, tool>>

\* swapTokens: swapParams and await walletClient.writeContract(router)
SwapRouter(r) ==
  /\ pc = "s_router"
  /\ LET swapParams ==
           [tokenIn |-> IF sv.isETHIn THEN COMMON_TOKENS.WETH
                        ELSE sv.normalizedTokenIn,
            tokenOut |-> IF sv.isETHOut THEN COMMON_TOKENS.WETH
                         ELSE sv.normalizedTokenOut,
            fee |-> FEE,
            recipient |-> RouterRecipient(sv.isETHOut, sv.recipientAddress),
            deadline |-> sv.deadline,
            amountIn |-> sv.amountIn,
            amountOutMinimum |-> sv.minimumAmountOut,
            sqrtPriceLimitX96 |-> 0]
         call == Call("writeContract", UNISWAP_V3_ROUTER, "exactInputSingle",
                      swapParams,
                      RouterValue(sv.isETHIn, sv.amountIn))
     IN IF sv.amountIn < 0 \/ sv.minimumAmountOut < 0
        THEN \* a negative uint256 fails in the ABI encoder, nothing is sent
             Catch(<<>>, chain, Err(<<>>, "integer out of range"))
        ELSE IF r # "ok" THEN Catch(<<call>>, chain, Err(<<>>, r))
        ELSE Step("s_wait", qv, [sv EXCEPT !.txHash = <<SWAP_TX>>], <<call>>,
                  chain, outcome)

\* the SwapResult of swapTokens: the hash and what the quote says
SwapResult_asRequested(txHash, quote) ==
  [hash |-> txHash,
   tokenIn |-> quote.tokenIn.symbol,
   tokenOut |-> quote.tokenOut.symbol,
   amountIn |-> params.amount,
   expectedAmountOut |-> quote.minimumAmountOut]

SwapResult(txHash, quote) ==
  [hash |-> txHash,
   tokenIn |-> quote.tokenIn.symbol,
   tokenOut |-> quote.tokenOut.symbol,
   amountIn |-> quote.tokenIn.amount,
   expectedAmountOut |-> quote.tokenOut.amount]

\* swapTokens: await waitForTransaction(txHash), then the SwapResult.  The
\* receipt's status is not read.
SwapWait(r, status) ==
  /\ pc = "s_wait"
  /\ LET call == Call("waitForTransactionReceipt", <<>>, "",
                      [hash |-> sv.txHash[1]], <<>>)
     IN IF r # "ok" THEN Catch(<<call>>, chain, Err(<<>>, r))
        ELSE Step("done", qv, sv, <<call>>, chain,
                  [kind |-> "returned",
                   status |-> status,
                   value |-> SwapResult(sv.txHash[1], sv.quote)])

\* swapTokens, insufficient funds: await getNativeBalance(), then the
\* friendlier error; a failing balance read leaves the catch block as is
SwapCatch(r, balance) ==
  /\ pc = "s_catch"
  /\ LET call == Call("getBalance", ACCOUNT, "", [account |-> ACCOUNT], <<>>)
     IN IF r # "ok" THEN Throw(qv, sv, <<call>>, chain, Err(<<>>, r))
        ELSE Throw(qv, sv, <<call>>, chain,
                   [prefix |-> <<>>,
                    cause |-> "Insufficient funds for swap",
                    balance |-> formatUnits(balance, ETHER_DECIMALS),
                    amount |-> params.amount])

\* native balances of the caller, in wei
BalanceInputs == {0, 5}

\* the steps of a running getSwapQuote or swapTokens, and of the chain
ServiceStep ==
  \/ \E r \in {"ok"} \cup RpcFailures : QuoteTokenIn(r)
  \/ \E r \in {"ok"} \cup RpcFailures : QuoteTokenOut(r)
  \/ \E r \in {"ok"} \cup RpcFailures, amountOut \in QuoterAnswers :
       QuoteCallQuoter(r, amountOut)
  \/ \E r \in {"ok"} \cup RpcFailures : SwapTokenIn(r)
  \/ \E r \in {"ok"} \cup RpcFailures, dt \in 0..MaxDelay : SwapAllowance(r, dt)
  \/ \E r \in {"ok", "read", "simulate", "write"}, f \in WriteFailures,
        dt \in 0..MaxDelay :
       SwapApprove(r, f, dt)
  \/ MineApproval
  \/ \E r \in {"ok"} \cup WriteFailures : SwapRouter(r)
  \/ \E r \in {"ok"} \cup RpcFailures, status \in {"success", "reverted"} :
       SwapWait(r, status)
  \/ \E r \in {"ok"} \cup RpcFailures, balance \in BalanceInputs :
       SwapCatch(r, balance)

Next ==
  \/ \E o \in {"getSwapQuote", "swapTokens"}, p \in SwapParamsInputs :
       Invoke(o, p)
  \/ ServiceStep

Spec == Init /\ [][Next]_vars

-----------------------------------------------------------------------------
(* The agent tools: each _call, applied to the outcome of the call it wraps. *)
(* r is "ok" or the message of the error the wrapped call throws, v the      *)
(* value it resolves to.                                                     *)

Returned(text) == [status |-> "returned", text |-> text]

Threw(message) == [status |-> "threw", message |-> message]

\* BigInt(string): an optional sign and decimal digits, or a SyntaxError
BigInt(str) ==
  LET digits == IF Len(str) > 0 /\ str[1] = "-" THEN Tail(str) ELSE str
  IN IF \A i \in 1..Len(digits) : IsDigit(digits[i])
     THEN [ok |-> TRUE,
           val |-> IF digits = str THEN DigitsToInt(digits)
                   ELSE 0 - DigitsToInt(digits)]
     ELSE [ok |-> FALSE, val |-> 0]

\* agent.getNativeBalance(): formatEther of the balance in wei
getNativeBalance(wei) == formatUnits(wei, ETHER_DECIMALS)

\* check_eth_balance, langchain/wallet.ts: no try/catch
wallet_EvmBalanceTool(r, wei) ==
  IF r # "ok" THEN Threw(r)
  ELSE LET balance == BigInt(getNativeBalance(wei))
       IN IF ~balance.ok THEN Threw("Cannot convert to a BigInt")
          ELSE Returned(<<formatUnits(balance.val, ETHER_DECIMALS), " ETH">>)

\* check_eth_balance, langchain/index.ts: no try/catch
index_EvmBalanceTool(r, wei) ==
  IF r # "ok" THEN Threw(r)
  ELSE LET balance == BigInt(getNativeBalance(wei))
       IN IF ~balance.ok THEN Threw("Cannot convert to a BigInt")
          ELSE Returned(<<formatUnits(balance.val, ETHER_DECIMALS), " ETH">>)

\* transfer_tokens, langchain/wallet.ts
wallet_EvmTransferTool(r, tokenAddress) ==
  IF r # "ok" THEN Returned(<<"Error: ", r>>)
  ELSE IF tokenAddress = <<>>
  THEN Returned(<<"ETH transfer transaction sent: ", "tx">>)
  ELSE Returned(<<"Token transfer transaction sent: ", "tx">>)

\* transfer_tokens, langchain/index.ts
index_EvmTransferTool(r, tokenAddress) ==
  IF r # "ok" THEN Returned(<<"Error: ", r>>)
  ELSE IF tokenAddress = <<>>
  THEN Returned(<<"ETH transfer transaction sent: ", "tx">>)
  ELSE Returned(<<"Token transfer transaction sent: ", "tx">>)

\* check_token_info, langchain/index.ts: no try/catch
index_TokenInfoTool(r, tokenInfo) ==
  IF r # "ok" THEN Threw(r) ELSE Returned(<<tokenInfo>>)

\* check_token_info, langchain/token.ts
token_TokenInfoTool(r, tokenInfo) ==
  IF r # "ok" THEN Returned(<<"Error getting token info: ", r>>)
  ELSE Returned(<<tokenInfo>>)

\* approve_token_spending
TokenApprovalTool(r, hash) ==
  IF r # "ok" THEN Returned(<<"Error approving token spending: ", r>>)
  ELSE Returned(<<"Approval transaction sent: ", hash>>)

\* check_token_allowance
TokenAllowanceTool(r, allowance) ==
  IF r # "ok" THEN Returned(<<"Error checking allowance: ", r>>)
  ELSE Returned(<<"Allowance: ", IntToDigits(allowance)>>)

\* get_wallet_info
WalletInfoTool(r, walletInfo) ==
  IF r # "ok" THEN Returned(<<"Error retrieving wallet information: ", r>>)
  ELSE Returned(<<walletInfo>>)

\* s without its leading zeros, "0" for zero
RECURSIVE StripLeadingZeros(_)
StripLeadingZeros(s) ==
  IF Len(s) > 1 /\ s[1] = "0" THEN StripLeadingZeros(Tail(s)) ELSE s

\* parseEther(value).toString() for a value that is not negative: the
\* digits of value * 10^18, or a thrown error.  The values estimated here
\* have fewer than 18 fractional digits, so parseUnits rounds nothing.
parseEther(value) ==
  IF ~IsDecimalString(value) \/ Len(value) = 0 \/ value[1] = "-"
  THEN [ok |-> FALSE, wei |-> <<>>]
  ELSE LET dot == DotPos(value)
           integer == IF dot = 0 THEN value ELSE SubSeq(value, 1, dot - 1)
           fraction == IF dot = 0 THEN <<>>
                       ELSE TrimTrailingZeros(SubSeq(value, dot + 1, Len(value)))
       IN [ok |-> TRUE,
           wei |-> StripLeadingZeros(integer
                                     \o PadEnd0(fraction, ETHER_DECIMALS))]

\* what the node answers to getGasPrice and to estimateGas
GAS_PRICE == 2

GAS_UNITS == 21000

\* the transfer value WalletService.estimateGas asks an estimate for:
\* BigInt(value), in wei
ServiceTransferValue(value) ==
  LET valueInWei == BigInt(value)
  IN IF ~valueInWei.ok \/ valueInWei.val < 0 THEN [ok |-> FALSE, wei |-> <<>>]
     ELSE [ok |-> TRUE, wei |-> IntToDigits(valueInWei.val)]

\* the transfer value the standalone estimate_gas tool asks an estimate for
ToolTransferValue(value) == parseEther(value)

\* the transactionDetails of both estimators: to and value are optional
\* (<<>> when omitted), transferValue is the conversion of value, rEstimate
\* the outcome of publicClient.estimateGas.  The renderings of the cost in
\* ETH are left out.
TransactionDetails(to, value, transferValue, rEstimate) ==
  IF to = <<>> \/ value = <<>> \/ value = <<<<>>>>
  THEN [requested |-> <<>>, details |-> <<>>]
  ELSE IF ~transferValue.ok
  THEN [requested |-> <<>>, details |-> <<"Failed to estimate gas">>]
  ELSE IF rEstimate # "ok"
  THEN [requested |-> <<transferValue.wei>>,
        details |-> <<"Failed to estimate gas", rEstimate>>]
  ELSE [requested |-> <<transferValue.wei>>,
        details |-> <<[gasUnits |-> IntToDigits(GAS_UNITS),
                       estimatedCostWei |->
                         IntToDigits(GAS_UNITS * GAS_PRICE)]>>]

\* WalletService.estimateGas(to, value), which is also the facade's
\* estimateGasForTransaction
estimateGas(to, value, rPrice, rEstimate) ==
  IF rPrice # "ok" THEN [ok |-> FALSE, message |-> rPrice, requested |-> <<>>]
  ELSE LET transactionDetails ==
             TransactionDetails(to, value,
                                IF value = <<>> THEN [ok |-> FALSE]
                                ELSE ServiceTransferValue(value[1]),
                                rEstimate)
       IN [ok |-> TRUE,
           currentGasPrice |-> IntToDigits(GAS_PRICE),
           transactionDetails |-> transactionDetails.details,
           requested |-> transactionDetails.requested]

\* estimate_gas, langchain/wallet.ts, on the outcome of service.estimateGas
GasEstimatorTool(gasEstimate) ==
  IF ~gasEstimate.ok
  THEN Returned(<<"Error estimating gas: ", gasEstimate.message>>)
  ELSE Returned(<<gasEstimate.currentGasPrice,
                  gasEstimate.transactionDetails>>)

\* estimate_gas, tools/wallet/gas_estimator.ts: its own reads
gas_GasEstimatorTool(to, value, rPrice, rEstimate) ==
  IF rPrice # "ok" THEN Returned(<<"Error estimating gas: ", rPrice>>)
  ELSE Returned(<<formatUnits(GAS_PRICE, 9),
                  TransactionDetails(to, value,
                                     IF value = <<>> THEN [ok |-> FALSE]
                                     ELSE ToolTransferValue(value[1]),
                                     rEstimate).details>>)

\* get_transaction_history
TransactionHistoryTool(r, history) ==
  IF r # "ok" THEN Returned(<<"Error retrieving transaction history: ", r>>)
  ELSE Returned(<<history>>)

\* the largest number of pairs in a DexScreener response, and the largest
\* 24-hour volume of a pair
MaxPairs == 5

MaxVolume == 4

\* how many results a search keeps
TOP_PAIRS == 3

\* pairs.sort((a, b) => Number(b.volume.h24) - Number(a.volume.h24)): the
\* sort is stable, so a pair goes behind those of the same volume that came
\* before it
RECURSIVE SortByVolume(_)
SortByVolume(pairs) ==
  IF Len(pairs) <= 1 THEN pairs
  ELSE LET last == pairs[Len(pairs)]
           sorted == SortByVolume(SubSeq(pairs, 1, Len(pairs) - 1))
           before == SelectSeq(sorted, LAMBDA q : q.h24 >= last.h24)
           after == SelectSeq(sorted, LAMBDA q : q.h24 < last.h24)
       IN before \o <<last>> \o after

\* .sort(...).slice(0, 3); without the sort the first three would be kept
TopPairs_unsorted(pairs) ==
  SubSeq(pairs, 1, IF Len(pairs) < TOP_PAIRS THEN Len(pairs) ELSE TOP_PAIRS)

TopPairs(pairs) ==
  LET sorted == SortByVolume(pairs)
  IN SubSeq(sorted, 1, IF Len(sorted) < TOP_PAIRS THEN Len(sorted)
                       ELSE TOP_PAIRS)

\* one entry of results; volume_24h is pair.volume.h24 || "N/A"
SearchResult(pair) ==
  [address |-> pair.address,
   volume_24h |-> IF pair.h24 = 0 THEN <<"N", "/", "A">>
                  ELSE IntToDigits(pair.h24)]

\* DexScreenerService.searchTokenByTicker on a response with these pairs
searchTokenByTicker(pairs) ==
  IF Len(pairs) = 0
  THEN [message |-> <<"No tokens found matching this ticker">>,
        results |-> <<>>]
  ELSE LET topPairs == TopPairs(pairs)
       IN [message |-> <<"Found ", Len(topPairs), " top pairs">>,
           results |-> [i \in 1..Len(topPairs) |-> SearchResult(topPairs[i])]]

\* get_token_data, langchain/dexscreener.ts: the service answers null (<<>>)
\* or the data of the first pair
langchain_GetTokenDataTool(r, tokenData) ==
  IF r # "ok" THEN Returned(<<"Error fetching token data: ", r>>)
  ELSE IF tokenData = <<>> THEN Returned(<<"No data found for this token">>)
  ELSE Returned(tokenData)

\* search_token_by_ticker, langchain/dexscreener.ts
langchain_SearchTokenByTickerTool(r, result) ==
  IF r # "ok" THEN Returned(<<"Error searching for token: ", r>>)
  ELSE Returned(<<result>>)

\* get_token_data, tools/dexscreener/get_token_data.ts: pairs is the list of
\* pairs in the response
GetTokenDataTool(r, pairs) ==
  IF r # "ok" THEN Returned(<<"Error fetching token data: ", r>>)
  ELSE IF Len(pairs) = 0 THEN Returned(<<"No data found for this token">>)
  ELSE Returned(<<pairs[1]>>)

\* search_token_by_ticker, tools/dexscreener/get_token_data.ts
SearchTokenByTickerTool(r, pairs) ==
  IF r # "ok" THEN Returned(<<"Error searching for token: ", r>>)
  ELSE IF Len(pairs) = 0
  THEN Returned(<<"No tokens found matching this ticker">>)
  ELSE LET topPairs == TopPairs(pairs)
       IN Returned(<<[message |-> <<"Found ", Len(topPairs), " top pairs">>,
                      results |-> [i \in 1..Len(topPairs) |->
                                     SearchResult(topPairs[i])]]>>)

\* get_swap_quote
GetSwapQuoteTool(r, quote) ==
  IF r # "ok" THEN Returned(<<"Error getting swap quote: ", r>>)
  ELSE Returned(<<"You can swap ", quote>>)

\* swap_tokens: a preliminary getSwapQuote, then swapTokens
SwapTokensTool(rQuote, rSwap, result) ==
  IF rQuote # "ok" THEN Returned(<<"Error executing swap: ", rQuote>>)
  ELSE IF rSwap # "ok" THEN Returned(<<"Error executing swap: ", rSwap>>)
  ELSE Returned(<<"Successfully swapped ", result>>)

\* the tool classes
ToolClasses ==
  {"wallet_EvmBalanceTool", "index_EvmBalanceTool", "wallet_EvmTransferTool",
   "index_EvmTransferTool", "index_TokenInfoTool", "token_TokenInfoTool",
   "TokenApprovalTool", "TokenAllowanceTool", "WalletInfoTool",
   "GasEstimatorTool", "gas_GasEstimatorTool", "TransactionHistoryTool",
   "langchain_GetTokenDataTool",
   "langchain_SearchTokenByTickerTool", "GetTokenDataTool",
   "SearchTokenByTickerTool", "GetSwapQuoteTool", "SwapTokensTool"}

\* messages of the errors a wrapped call throws
CallFailures ==
  {"rpc failure", "insufficient funds", "Invalid address",
   "Token address lookup not implemented yet"}

CallOutcomes == {"ok"} \cup CallFailures

\* the pairs of a DexScreener response: the i-th of the n pairs has address
\* i and 24-hour volume volume[i]
PairList(n, volume) == [i \in 1..n |-> [address |-> i, h24 |-> volume[i]]]

\* the tool classes that ask DexScreener
DexScreenerClasses ==
  {"langchain_GetTokenDataTool", "langchain_SearchTokenByTickerTool",
   "GetTokenDataTool", "SearchTokenByTickerTool"}

InitTools ==
  /\ pureIn = [fn |-> "none"]
  /\ pureOut = [status |-> "none"]
  /\ ServiceIdle
  /\ tool = NoTool

\* the agent calls a tool
ToolInvoke(class, tokenAddress) ==
  /\ tool = NoTool
  /\ pc = "idle"
  /\ tool' = [status |-> "running", class |-> class,
              tokenAddress |-> tokenAddress]
  /\ UNCHANGED <<pureIn, pureOut, pc, op, params, qv, sv, calls, chain,
                 outcome>>

\* the outcome of _call of a running tool
Finish(class, result) ==
  /\ tool.status = "running"
  /\ tool.class = class
  /\ tool' = [status |-> result.status, class |-> class, result |-> result]
  /\ UNCHANGED <<pureIn, pureOut, pc, op, params, qv, sv, calls, chain,
                 outcome>>

\* the addresses whose native balance the chain holds
BalanceHolders == {ACCOUNT, OTHER_RECIPIENT}

\* the outcome of _call of a running balance tool, with the address it was
\* given and the balances on the chain
FinishBalance(class, r, address, balanceOf, result) ==
  /\ tool.status = "running"
  /\ tool.class = class
  /\ tool' = [status |-> result.status, class |-> class, result |-> result,
              r |-> r, input |-> [address |-> address],
              balanceOf |-> balanceOf]
  /\ UNCHANGED <<pureIn, pureOut, pc, op, params, qv, sv, calls, chain,
                 outcome>>

\* check_eth_balance({address}); getNativeBalance reads the balance of the
\* configured account
CallBalanceTool(r, address, balanceOf) ==
  \/ FinishBalance("wallet_EvmBalanceTool", r, address, balanceOf,
                   wallet_EvmBalanceTool(r, balanceOf[ACCOUNT]))
  \/ FinishBalance("index_EvmBalanceTool", r, address, balanceOf,
                   index_EvmBalanceTool(r, balanceOf[ACCOUNT]))

CallTransferTool(r) ==
  \/ Finish("wallet_EvmTransferTool",
            wallet_EvmTransferTool(r, tool.tokenAddress))
  \/ Finish("index_EvmTransferTool",
            index_EvmTransferTool(r, tool.tokenAddress))

CallTokenTool(r, a, n) ==
  \/ Finish("index_TokenInfoTool",
            index_TokenInfoTool(r, [symbol |-> SymbolOf(a),
                                    decimals |-> DecimalsOf(a)]))
  \/ Finish("token_TokenInfoTool",
            token_TokenInfoTool(r, [symbol |-> SymbolOf(a),
                                    decimals |-> DecimalsOf(a)]))
  \/ Finish("TokenApprovalTool", TokenApprovalTool(r, APPROVE_TX))
  \/ Finish("TokenAllowanceTool", TokenAllowanceTool(r, n))

CallWalletTool(r) ==
  \/ Finish("WalletInfoTool", WalletInfoTool(r, "walletInfo"))
  \/ Finish("TransactionHistoryTool", TransactionHistoryTool(r, "history"))

\* the recipients and the values an estimate is asked for
GasToInputs == {<<>>, <<OTHER_RECIPIENT>>}

GasValueInputs ==
  {<<>>, <<<<>>>>, <<<<"1">>>>, <<<<"1", "5">>>>, <<<<"0", ".", "1">>>>,
   <<<<"0", ".", "1", "5">>>>, <<<<"x">>>>}

\* the outcome of _call of a running estimate_gas tool, with its input and
\* the transfer value it asked the node to estimate
FinishGas(class, to, value, rPrice, requested, result) ==
  /\ tool.status = "running"
  /\ tool.class = class
  /\ tool' = [status |-> result.status, class |-> class, result |-> result,
              r |-> rPrice, input |-> [to |-> to, value |-> value],
              requested |-> requested]
  /\ UNCHANGED <<pureIn, pureOut, pc, op, params, qv, sv, calls, chain,
                 outcome>>

CallGasTool(to, value, rPrice, rEstimate) ==
  \/ FinishGas("GasEstimatorTool", to, value, rPrice,
               estimateGas(to, value, rPrice, rEstimate).requested,
               GasEstimatorTool(estimateGas(to, value, rPrice, rEstimate)))
  \/ FinishGas("gas_GasEstimatorTool", to, value, rPrice,
               IF rPrice # "ok" THEN <<>>
               ELSE TransactionDetails(
                      to, value,
                      IF value = <<>> THEN [ok |-> FALSE]
                      ELSE ToolTransferValue(value[1]),
                      rEstimate).requested,
               gas_GasEstimatorTool(to, value, rPrice, rEstimate))

\* the outcome of _call of a running search tool, with the answer it got
\* from DexScreener
FinishWith(class, r, pairs, result) ==
  /\ tool.status = "running"
  /\ tool.class = class
  /\ tool' = [status |-> result.status, class |-> class, result |-> result,
              r |-> r, pairs |-> IF r = "ok" THEN pairs ELSE <<>>]
  /\ UNCHANGED <<pureIn, pureOut, pc, op, params, qv, sv, calls, chain,
                 outcome>>

CallDexScreenerTool(r, pairs) ==
  \/ Finish("langchain_GetTokenDataTool",
            langchain_GetTokenDataTool(
              r, IF pairs = <<>> THEN <<>> ELSE <<pairs[1]>>))
  \/ FinishWith("langchain_SearchTokenByTickerTool", r, pairs,
                langchain_SearchTokenByTickerTool(
                  r, searchTokenByTicker(pairs)))
  \/ Finish("GetTokenDataTool", GetTokenDataTool(r, pairs))
  \/ FinishWith("SearchTokenByTickerTool", r, pairs,
                SearchTokenByTickerTool(r, pairs))

CallSwapTool(rQuote, rSwap, amountOut) ==
  \/ Finish("GetSwapQuoteTool", GetSwapQuoteTool(rQuote, amountOut))
  \/ Finish("SwapTokensTool", SwapTokensTool(rQuote, rSwap, amountOut))

NextTools ==
  \/ \E class \in ToolClasses, tokenAddress \in {<<>>, COMMON_TOKENS.USDC} :
       ToolInvoke(class, tokenAddress)
  \/ \E r \in CallOutcomes, address \in BalanceHolders,
        balanceOf \in [BalanceHolders -> BalanceInputs] :
       CallBalanceTool(r, address, balanceOf)
  \/ \E r \in CallOutcomes : CallTransferTool(r)
  \/ \E r \in CallOutcomes, a \in {COMMON_TOKENS.WETH, COMMON_TOKENS.USDC},
        n \in AllowanceInputs : CallTokenTool(r, a, n)
  \/ \E r \in CallOutcomes : CallWalletTool(r)
  \/ \E to \in GasToInputs, value \in GasValueInputs,
        rPrice \in {"ok"} \cup RpcFailures,
        rEstimate \in {"ok"} \cup WriteFailures :
       CallGasTool(to, value, rPrice, rEstimate)
  \/ /\ tool.status = "running"
     /\ tool.class \in DexScreenerClasses
     /\ \E r \in CallOutcomes :
          \E n \in (IF r = "ok" THEN 0..MaxPairs ELSE {0}) :
            \E volume \in [1..n -> 0..MaxVolume] :
              CallDexScreenerTool(r, PairList(n, volume))
  \/ \E rQuote \in CallOutcomes, rSwap \in CallOutcomes,
        amountOut \in QuoterAnswers : CallSwapTool(rQuote, rSwap, amountOut)

SpecTools == InitTools /\ [][NextTools]_vars

-----------------------------------------------------------------------------
(* The swap tools of part_007 over the swap service: get_swap_quote awaits *)
(* getSwapQuote, swap_tokens awaits getSwapQuote and then swapTokens       *)

SwapToolClasses == {"GetSwapQuoteTool", "SwapTokensTool"}

\* inputs of get_swap_quote: its schema has no recipient
QuoteToolInputs == {p \in SwapParamsInputs : p.recipient = <<>>}

\* inputs of swap_tokens
SwapToolInputs ==
  [tokenIn : {ETH_SYM, <<"u","s","d","c">>},
   tokenOut : {<<"u","s","d","c">>, COMMON_TOKENS.WETH},
   amount : {<<"1">>, <<"0",".","1","5">>},
   slippagePercentage : SwapSlippageInputs,
   recipient : SwapRecipientInputs]

\* the JSON get_swap_quote answers with
GetSwapQuoteReport(quote) ==
  [tokenIn |-> [symbol |-> quote.tokenIn.symbol,
                amount |-> quote.tokenIn.amount],
   tokenOut |-> [symbol |-> quote.tokenOut.symbol,
                 amount |-> quote.tokenOut.amount],
   minimumAmountOut |-> quote.minimumAmountOut,
   priceImpact |-> quote.priceImpact]

\* the JSON swap_tokens answers with: the SwapResult of swapTokens; the
\* quote of the tool's own getSwapQuote is not read
SwapTokensReport_preliminary(result, quote) ==
  [transactionHash |-> result.hash,
   tokenIn |-> result.tokenIn,
   tokenOut |-> result.tokenOut,
   amountIn |-> result.amountIn,
   expectedAmountOut |-> quote.tokenOut.amount,
   message |-> "Successfully swapped"]

SwapTokensReport(result, quote) ==
  [transactionHash |-> result.hash,
   tokenIn |-> result.tokenIn,
   tokenOut |-> result.tokenOut,
   amountIn |-> result.amountIn,
   expectedAmountOut |-> result.expectedAmountOut,
   message |-> "Successfully swapped"]

\* a tool that has returned its string
ToolReturned(text) ==
  [status |-> "returned", class |-> tool.class, input |-> tool.input,
   quote |-> tool.quote, result |-> Returned(text)]

\* _call of either tool starts with await this.service.getSwapQuote of the
\* input without its recipient
SwapToolCall(class, p) ==
  /\ pc = "idle"
  /\ tool = NoTool
  /\ pureIn = [fn |-> "none"]
  /\ tool' = [status |-> "running", class |-> class, input |-> p,
              quote |-> <<>>]
  /\ Begin("getSwapQuote", [p EXCEPT !.recipient = <<>>])
  /\ UNCHANGED <<pureIn, pureOut, sv, calls, chain, outcome>>

\* getSwapQuote has ended: either tool answers its error; get_swap_quote
\* answers the quote, swap_tokens goes on to await this.service.swapTokens
SwapToolAfterQuote ==
  /\ tool.status = "running"
  /\ tool.class \in SwapToolClasses
  /\ pc = "done"
  /\ op = "getSwapQuote"
  /\ IF outcome.kind = "threw"
     THEN /\ tool' = ToolReturned(
                       <<IF tool.class = "GetSwapQuoteTool"
                         THEN "Error getting swap quote: "
                         ELSE "Error executing swap: ", outcome.error>>)
          /\ UNCHANGED <<pureIn, pureOut, pc, op, params, qv, sv, calls, chain,
                         outcome>>
     ELSE IF tool.class = "GetSwapQuoteTool"
     THEN /\ tool' = ToolReturned(GetSwapQuoteReport(outcome.value))
          /\ UNCHANGED <<pureIn, pureOut, pc, op, params, qv, sv, calls, chain,
                         outcome>>
     ELSE /\ tool' = [tool EXCEPT !.quote = <<outcome.value>>]
          /\ Begin("swapTokens", tool.input)
          /\ outcome' = NoOutcome
          /\ UNCHANGED <<pureIn, pureOut, sv, calls, chain>>

\* swapTokens has ended: swap_tokens answers the result or the error
SwapToolAfterSwap ==
  /\ tool.status = "running"
  /\ tool.class = "SwapTokensTool"
  /\ pc = "done"
  /\ op = "swapTokens"
  /\ tool' = ToolReturned(
               IF outcome.kind = "threw"
               THEN <<"Error executing swap: ", outcome.error>>
               ELSE SwapTokensReport(outcome.value, tool.quote[1]))
  /\ UNCHANGED <<pureIn, pureOut, pc, op, params, qv, sv, calls, chain,
                 outcome>>

NextSwapTools ==
  \/ \E p \in QuoteToolInputs : SwapToolCall("GetSwapQuoteTool", p)
  \/ \E p \in SwapToolInputs : SwapToolCall("SwapTokensTool", p)
  \/ ServiceStep
  \/ SwapToolAfterQuote
  \/ SwapToolAfterSwap

SpecSwapTools == Init /\ [][NextSwapTools]_vars

-----------------------------------------------------------------------------
(* The token tools sendTokens and approveSpending, and estimateGas of the  *)
(* facade, one action per await.  The wallet client always has an account. *)

\* ensureAddress(address): the address, or the throw of "Invalid address"
ensureAddress_unchecked(address) == TRUE

ensureAddress(address) == isAddress(address)

\* an address in mixed case whose checksum is wrong
BAD_CHECKSUM == <<"0", "x", "A", "b">> \o SubSeq(toLowerCase(OTHER_RECIPIENT), 5, 42)

\* strings a caller may pass as recipient or spender
AddressInputs ==
  {OTHER_RECIPIENT, toLowerCase(OTHER_RECIPIENT), BAD_CHECKSUM,
   <<"0", "x", "1", "2">>, <<>>}

\* strings a caller may pass as token
TokenInputs ==
  {<<"e","t","h">>, ETH_SYM, COMMON_TOKENS.USDC, OTHER_RECIPIENT, BOGUS_TOKEN,
   BAD_CHECKSUM}

TokenAmountInputs == {<<"1">>, <<"x">>}

\* hash of a transfer
SEND_TX == "sendTx"

\* a caller invokes sendTokens(p): the statements up to the first await
sendTokens(p) ==
  /\ pc = "idle"
  /\ tool = NoTool
  /\ pureIn = [fn |-> "none"]
  /\ op' = "sendTokens"
  /\ params' = p
  /\ IF toLowerCase(p.token) = <<"e","t","h">>
     THEN IF ~ensureAddress(p.to)
          THEN /\ pc' = "done"
               /\ outcome' = [kind |-> "threw",
                              error |-> Err(<<>>, "Invalid address")]
          ELSE IF ~parseEther(p.amount).ok
          THEN /\ pc' = "done"
               /\ outcome' = [kind |-> "threw",
                              error |-> Err(<<>>, "invalid decimal number")]
          ELSE pc' = "t_send" /\ outcome' = outcome
     ELSE IF ~isAddress(p.token)
     THEN /\ pc' = "done"
          /\ outcome' = [kind |-> "threw",
                         error |-> Err(<<>>,
                                       "Token address lookup not implemented yet")]
     ELSE pc' = "t_check" /\ outcome' = outcome
  /\ UNCHANGED <<pureIn, pureOut, qv, sv, calls, chain, tool>>

\* a caller invokes approveSpending(p): the statements up to the first await
approveSpending(p) ==
  /\ pc = "idle"
  /\ tool = NoTool
  /\ pureIn = [fn |-> "none"]
  /\ op' = "approveSpending"
  /\ params' = p
  /\ IF ~isAddress(p.token)
     THEN /\ pc' = "done"
          /\ outcome' = [kind |-> "threw",
                         error |-> Err(<<>>,
                                       "Token address lookup not implemented yet")]
     ELSE pc' = "t_check" /\ outcome' = outcome
  /\ UNCHANGED <<pureIn, pureOut, qv, sv, calls, chain, tool>>

\* a caller invokes the facade's estimateGas(p)
facade_estimateGas(p) ==
  /\ pc = "idle"
  /\ tool = NoTool
  /\ pureIn = [fn |-> "none"]
  /\ op' = "estimateGas"
  /\ params' = p
  /\ IF ~isAddress(p.to)
     THEN /\ pc' = "done"
          /\ outcome' = [kind |-> "threw",
                         error |-> Err(<<>>, "Invalid address")]
     ELSE pc' = "t_estimate" /\ outcome' = outcome
  /\ UNCHANGED <<pureIn, pureOut, qv, sv, calls, chain, tool>>

\* sendTokens, native transfer: walletClient.sendTransaction
TokenSendEth(r) ==
  /\ pc = "t_send"
  /\ LET call == Call("sendTransaction", params.to, "", [account |-> ACCOUNT],
                      <<parseEther(params.amount).wei>>)
     IN IF r # "ok" THEN Throw(qv, sv, <<call>>, chain, Err(<<>>, r))
        ELSE Step("done", qv, sv, <<call>>, chain,
                  [kind |-> "returned", value |-> SEND_TX])

\* sendTokens and approveSpending: await this.checkToken(params.token)
TokenCheck(r) ==
  /\ pc = "t_check"
  /\ LET token == checkToken(params.token, r)
     IN IF ~token.ok THEN Throw(qv, sv, token.calls, chain, token.error)
        ELSE Step("t_simulate", qv, [set |-> TRUE, token |-> token.info],
                  token.calls, chain, outcome)

\* sendTokens and approveSpending: the arguments, then await
\* publicClient.simulateContract
TokenSimulate(r) ==
  /\ pc = "t_simulate"
  /\ LET functionName == IF op = "sendTokens" THEN "transfer" ELSE "approve"
         other == IF op = "sendTokens" THEN params.to ELSE params.spender
         amount == parseUnits(params.amount, sv.token.decimals)
         call == Call("simulateContract", params.token, functionName,
                      [other |-> other, amount |-> amount.val], <<>>)
     IN IF ~ensureAddress(other)
        THEN Throw(qv, sv, <<>>, chain, Err(<<>>, "Invalid address"))
        ELSE IF ~amount.ok
        THEN Throw(qv, sv, <<>>, chain, Err(<<>>, "invalid decimal number"))
        ELSE IF r # "ok" THEN Throw(qv, sv, <<call>>, chain, Err(<<>>, r))
        ELSE Step("t_write", qv, [sv EXCEPT !.set = TRUE] @@ [request |-> call],
                  <<call>>, chain, outcome)

\* sendTokens and approveSpending: walletClient.writeContract(request)
TokenWrite(r) ==
  /\ pc = "t_write"
  /\ LET call == [sv.request EXCEPT !.api = "writeContract"]
     IN IF r # "ok" THEN Throw(qv, sv, <<call>>, chain, Err(<<>>, r))
        ELSE Step("done", qv, sv, <<call>>, chain,
                  [kind |-> "returned",
                   value |-> IF op = "sendTokens" THEN SEND_TX ELSE APPROVE_TX])

\* estimateGas of the facade: publicClient.estimateGas
TokenEstimate(r) ==
  /\ pc = "t_estimate"
  /\ LET call == Call("estimateGas", params.to, "", [account |-> ACCOUNT],
                      <<params.value>>)
     IN IF r # "ok" THEN Throw(qv, sv, <<call>>, chain, Err(<<>>, r))
        ELSE Step("done", qv, sv, <<call>>, chain,
                  [kind |-> "returned", value |-> GAS_UNITS])

NextToken ==
  \/ \E p \in [token : TokenInputs, to : AddressInputs,
               amount : TokenAmountInputs] : sendTokens(p)
  \/ \E p \in [token : TokenInputs, spender : AddressInputs,
               amount : TokenAmountInputs] : approveSpending(p)
  \/ \E p \in [to : AddressInputs, value : {0, 1}] : facade_estimateGas(p)
  \/ \E r \in {"ok"} \cup WriteFailures : TokenSendEth(r)
  \/ \E r \in {"ok"} \cup RpcFailures : TokenCheck(r)
  \/ \E r \in {"ok"} \cup RpcFailures : TokenSimulate(r)
  \/ \E r \in {"ok"} \cup WriteFailures : TokenWrite(r)
  \/ \E r \in {"ok"} \cup RpcFailures : TokenEstimate(r)

SpecToken == InitTools /\ [][NextToken]_vars

-----------------------------------------------------------------------------
(* Construction of the facade: new KibanAgentKit(config) *)

\* viem's mainnet and the katana chain of the repository
MAINNET_ID == 1

KATANA_ID == 0

\* a chain the kit does not list
OTHER_CHAIN_ID == 137

SUPPORTED_CHAINS == {MAINNET_ID, KATANA_ID}

\* DEFAULT_RPC_URLS[id]; a chain without an entry gives undefined, which is
\* as falsy as the empty string
DEFAULT_RPC_URLS(id) ==
  IF id = MAINNET_ID THEN "https://eth.public-rpc.com" ELSE ""

\* SUPPORTED_CHAINS.find((c) => c.id === this.chain.id)
IsSupportedChain_any(id) == TRUE

IsSupportedChain(id) == id \in SUPPORTED_CHAINS

\* the private key of ACCOUNT
PRIVATE_KEY ==
  <<"0","x","a","c","0","9","7","4","b","e","c","3","9","a","1","7","e","3",
    "6","b","a","4","a","6","b","4","d","2","3","8","f","f","9","4","4","b",
    "a","c","b","4","7","8","c","b","e","d","5","e","f","c","a","e","7","8",
    "4","d","7","b","f","4","f","2","f","f","8","0">>

\* String.prototype.startsWith("0x")
startsWith0x(str) == Len(str) >= 2 /\ str[1] = "0" /\ str[2] = "x"

\* privateKeyToAccount accepts 32 bytes of hex behind 0x
IsPrivateKey(str) ==
  /\ Len(str) = 66
  /\ startsWith0x(str)
  /\ \A i \in 3..66 : str[i] \in HexChars

\* the private keys a configuration may carry: none, the empty string, a
\* value that is no string, strings without and with 0x, and a real key
PrivateKeyInputs ==
  {<<>>,
   <<[isString |-> TRUE, text |-> <<>>]>>,
   <<[isString |-> FALSE, text |-> <<"5">>]>>,
   <<[isString |-> TRUE, text |-> Tail(Tail(PRIVATE_KEY))]>>,
   <<[isString |-> TRUE, text |-> <<"0", "x", "1">>]>>,
   <<[isString |-> TRUE, text |-> PRIVATE_KEY]>>}

ChainInputs == {<<>>, <<MAINNET_ID>>, <<KATANA_ID>>, <<OTHER_CHAIN_ID>>}

RpcUrlInputs == {<<>>, <<"">>, <<"http://localhost:8545">>}

ConfigInputs ==
  [privateKey : PrivateKeyInputs, chain : ChainInputs, rpcUrl : RpcUrlInputs]

\* the messages the catch block gives a key that privateKeyToAccount rejects;
\* which one depends on the wording of the library's error
KeyErrors == {"Invalid private key", "Failed to initialize Kiban Agent"}

\* the constructor; keyError is the message for a rejected key
KibanAgentKit(config, keyError) ==
  LET chain_ == IF config.chain = <<>> THEN MAINNET_ID ELSE config.chain[1]
      rpcUrl == IF config.rpcUrl # <<>> /\ config.rpcUrl[1] # ""
                THEN config.rpcUrl[1] ELSE DEFAULT_RPC_URLS(chain_)
  IN IF config.privateKey = <<>> \/ config.privateKey[1].text = <<>>
     THEN [status |-> "threw", message |-> "Private key is required"]
     ELSE IF ~config.privateKey[1].isString
             \/ ~startsWith0x(config.privateKey[1].text)
     THEN [status |-> "threw", message |-> "Invalid private key format"]
     ELSE IF ~IsSupportedChain(chain_)
     THEN [status |-> "threw", message |-> "Chain is not supported"]
     ELSE IF rpcUrl = ""
     THEN [status |-> "threw", message |-> "No RPC URL provided"]
     ELSE IF ~IsPrivateKey(config.privateKey[1].text)
     THEN [status |-> "threw", message |-> keyError]
     ELSE [status |-> "constructed", address |-> ACCOUNT, chain |-> chain_,
           rpcUrl |-> rpcUrl]

InitConfig ==
  /\ pureIn \in [fn : {"construct"}, config : ConfigInputs]
  /\ pureOut = [status |-> "pending"]
  /\ ServiceIdle
  /\ tool = NoTool

\* new KibanAgentKit(config)
Construct(keyError) ==
  /\ pureIn.fn = "construct"
  /\ pureOut.status = "pending"
  /\ pureOut' = KibanAgentKit(pureIn.config, keyError)
  /\ UNCHANGED <<pureIn, pc, op, params, qv, sv, calls, chain, outcome, tool>>

NextConfig == \E keyError \in KeyErrors : Construct(keyError)

SpecConfig == InitConfig /\ [][NextConfig]_vars

-----------------------------------------------------------------------------
(* Numeric reading of decimal strings, used to state the properties *)

\* number of digits after the "." of a decimal string
FracLen(s) == IF DotPos(s) = 0 THEN 0 ELSE Len(s) - DotPos(s)

\* the value of decimal string s times 10^k, for k >= FracLen(s)
DecimalScaled(s, k) ==
  LET negative == Len(s) > 0 /\ s[1] = "-"
      body == IF negative THEN Tail(s) ELSE s
      dot == DotPos(body)
      int == IF dot = 0 THEN body ELSE SubSeq(body, 1, dot - 1)
      frac == IF dot = 0 THEN <<>> ELSE SubSeq(body, dot + 1, Len(body))
      mag == DigitsToInt(int) * Pow10(k) + DigitsToInt(PadEnd0(frac, k))
  IN IF negative THEN 0 - mag ELSE mag

CommonScale(a, b) == IF FracLen(a) >= FracLen(b) THEN FracLen(a) ELSE FracLen(b)

DecimalEq(a, b) ==
  DecimalScaled(a, CommonScale(a, b)) = DecimalScaled(b, CommonScale(a, b))

DecimalLess(a, b) ==
  DecimalScaled(a, CommonScale(a, b)) < DecimalScaled(b, CommonScale(a, b))

\* floor(a * m / 10000) for a >= 0, without forming the product
FloorMulDiv10000(a, m) ==
  (a \div 10000) * m + ((a % 10000) * m) \div 10000

\* the integer nearest to x / 10, halves rounded up
NearestTenth(x) == CHOOSE b \in -20000..20000 : 10 * b - 5 <= x /\ x < 10 * b + 5

-----------------------------------------------------------------------------
(* Properties of the pure functions *)

SlippageApplied == pureIn.fn = "slippage" /\ pureOut.status = "returned"

\* C5: for every quoted amountOut and slippagePercentage, minimumAmountOut in
\* base units is floor(amountOut * (10000 - round(slippagePercentage*100)) /
\* 10000); amountOut = 1,000,000 with slippagePercentage = 0.5 gives 995000.
C5_MinimumIsFloorOfFormula ==
  SlippageApplied =>
    LET slippage == IF pureIn.slippagePercentage = <<>> THEN 500
                    ELSE pureIn.slippagePercentage[1]
    IN /\ pureOut.minimumAmountOutRaw =
            FloorMulDiv10000(pureIn.amountOut, 10000 - NearestTenth(slippage))
       /\ (pureIn.amountOut = 1000000 /\ slippage = 500)
            => pureOut.minimumAmountOutRaw = 995000

\* C6 as stated: minimumAmountOut is strictly less than tokenOut.amount
\* whenever slippagePercentage > 0 and equal to it when slippagePercentage = 0.
C6_StrictlyLessWheneverPositive ==
  SlippageApplied =>
    LET slippage == IF pureIn.slippagePercentage = <<>> THEN 500
                    ELSE pureIn.slippagePercentage[1]
    IN /\ slippage > 0 => DecimalLess(pureOut.minimumAmountOut, pureOut.amount)
       /\ slippage = 0 => pureOut.minimumAmountOut = pureOut.amount

\* C6 amended: minimumAmountOut is strictly less than tokenOut.amount whenever
\* slippagePercentage is at least 0.005 (it rounds to one basis point or
\* more) and the quoted amountOut is positive; it equals tokenOut.amount when
\* slippagePercentage rounds to zero basis points (0 included) or the quoted
\* amountOut is 0.
C6_StrictlyLessFromOneBasisPoint ==
  SlippageApplied =>
    LET slippage == IF pureIn.slippagePercentage = <<>> THEN 500
                    ELSE pureIn.slippagePercentage[1]
    IN /\ (slippage >= 5 /\ pureIn.amountOut > 0)
            => DecimalLess(pureOut.minimumAmountOut, pureOut.amount)
       /\ (slippage \in (0 - 5)..4 \/ pureIn.amountOut = 0)
            => pureOut.minimumAmountOut = pureOut.amount

\* a quote of 1,000,000 base units at the default 0.5% with 2 decimals:
\* 10000 quoted, 9950 minimum
C6_Witness ==
  /\ SlippageApplied
  /\ pureIn.slippagePercentage = <<>>
  /\ pureIn.amountOut = 1000000
  /\ pureIn.decimals = 2
  /\ pureOut.amount = <<"1","0","0","0","0">>
  /\ pureOut.minimumAmountOut = <<"9","9","5","0">>

\* C7: for every symbol S in {ETH, WETH, USDC, USDT, DAI} and every
\* upper/lower-case spelling of S, normalizeTokenAddress returns the fixed
\* address of S in COMMON_TOKENS.
C7_NormalizeIgnoresCase ==
  (pureIn.fn = "normalize" /\ pureOut.status = "returned") =>
    /\ pureIn.token \in CaseSpellings(ETH_SYM)
         => pureOut.address = COMMON_TOKENS.ETH
    /\ pureIn.token \in CaseSpellings(WETH_SYM)
         => pureOut.address = COMMON_TOKENS.WETH
    /\ pureIn.token \in CaseSpellings(USDC_SYM)
         => pureOut.address = COMMON_TOKENS.USDC
    /\ pureIn.token \in CaseSpellings(USDT_SYM)
         => pureOut.address = COMMON_TOKENS.USDT
    /\ pureIn.token \in CaseSpellings(DAI_SYM)
         => pureOut.address = COMMON_TOKENS.DAI

\* the mixed-case spelling "wEtH" has been normalized to the WETH address
C7_Witness ==
  /\ pureIn.fn = "normalize"
  /\ pureIn.token = <<"w","E","t","H">>
  /\ pureOut.status = "returned"
  /\ pureOut.address = COMMON_TOKENS.WETH

\* C8: for every decimal string a and decimals count d, the human-unit
\* string getSwapQuote derives from parseUnits(a, d) has the numeric value
\* of a.
C8_RoundTripKeepsValue ==
  (pureIn.fn = "roundtrip" /\ pureOut.status = "returned") =>
    DecimalEq(pureIn.amount, pureOut.formattedAmountIn)

-----------------------------------------------------------------------------
(* The calls of one invocation, read from the log *)

\* the caller named ETH: the symbol in any letter case, or the sentinel address
IsEthInput(token) ==
  \/ toUpperCase(token) = ETH_SYM
  \/ toLowerCase(token) = toLowerCase(COMMON_TOKENS.ETH)

IsAllowanceRead(c) ==
  /\ c.api = "readContract"
  /\ c.functionName = "allowance"
  /\ c.args.owner = ACCOUNT
  /\ c.args.spender = UNISWAP_V3_ROUTER

IsApprovalTx(c) == c.api = "writeContract" /\ c.functionName = "approve"

IsRouterTx(c) ==
  /\ c.api = "writeContract"
  /\ c.address = UNISWAP_V3_ROUTER
  /\ c.functionName = "exactInputSingle"

CallIndices == 1..Len(calls)

InSwap == op = "swapTokens" /\ pc # "idle"

\* C1: in swapTokens with a tokenIn other than ETH the allowance of the
\* caller for the router is read before the router call is submitted, and
\* with tokenIn ETH no allowance is read at all
C1_AllowanceReadBeforeRouter ==
  InSwap =>
    IF IsEthInput(params.tokenIn)
    THEN \A i \in CallIndices : calls[i].functionName # "allowance"
    ELSE \A j \in CallIndices :
           IsRouterTx(calls[j]) =>
             \E i \in 1..(j - 1) : IsAllowanceRead(calls[i])

C1_Witness ==
  /\ InSwap
  /\ ~IsEthInput(params.tokenIn)
  /\ \E j \in CallIndices : IsRouterTx(calls[j])
  /\ \E i \in CallIndices : IsAllowanceRead(calls[i])

\* C2: in swapTokens with a tokenIn other than ETH, an allowance read that
\* returns at least amountIn is followed by no approval transaction
C2_NoApprovalWhenAllowanceSuffices ==
  (InSwap /\ sv.set /\ sv.allowance # <<>> /\ sv.allowance[1] >= sv.amountIn)
    => \A i \in CallIndices : ~IsApprovalTx(calls[i])

C2_Witness ==
  /\ InSwap /\ sv.set /\ sv.allowance # <<>>
  /\ sv.allowance[1] = sv.amountIn
  /\ sv.amountIn > 0
  /\ \E j \in CallIndices : IsRouterTx(calls[j])

\* C3: in swapTokens with a tokenIn other than ETH, an allowance read that
\* returns less than amountIn is followed by one approval of exactly
\* amountIn for the router, and the router call is submitted only once the
\* approval step has returned
C3_ExactApprovalThenRouter ==
  (InSwap /\ sv.set /\ sv.allowance # <<>> /\ sv.allowance[1] < sv.amountIn)
    => /\ \A i \in CallIndices :
            IsApprovalTx(calls[i]) =>
              /\ calls[i].address = sv.normalizedTokenIn
              /\ calls[i].args.spender = UNISWAP_V3_ROUTER
              /\ calls[i].args.amount = sv.amountIn
       /\ \A j \in CallIndices :
            IsRouterTx(calls[j]) =>
              /\ sv.approval # <<>>
              /\ \E i \in 1..(j - 1) :
                   /\ IsApprovalTx(calls[i])
                   /\ calls[i].args.amount = sv.amountIn
       /\ pc = "s_approve" => \A j \in CallIndices : ~IsRouterTx(calls[j])

C3_Witness ==
  /\ InSwap /\ sv.set /\ sv.allowance # <<>>
  /\ sv.allowance[1] < sv.amountIn
  /\ \E i \in CallIndices : IsApprovalTx(calls[i])
  /\ \E j \in CallIndices : IsRouterTx(calls[j])

\* C4: no contract call of getSwapQuote or swapTokens carries the ETH
\* sentinel address, as the contract called or as a token argument
C4_SentinelNeverSentOnChain ==
  \A i \in CallIndices :
    /\ toLowerCase(calls[i].address) # toLowerCase(COMMON_TOKENS.ETH)
    /\ calls[i].functionName \in {"quoteExactInputSingle", "exactInputSingle"}
         => /\ toLowerCase(calls[i].args.tokenIn)
                 # toLowerCase(COMMON_TOKENS.ETH)
            /\ toLowerCase(calls[i].args.tokenOut)
                 # toLowerCase(COMMON_TOKENS.ETH)

\* C9: the router call carries the value amountIn exactly when tokenIn is
\* ETH, and no value for any other tokenIn
C9_ValueAttachedIffEthIn ==
  InSwap =>
    \A j \in CallIndices :
      IsRouterTx(calls[j]) =>
        IF IsEthInput(params.tokenIn)
        THEN calls[j].value = <<calls[j].args.amountIn>>
             /\ parseUnits(params.amount, DecimalsOf(COMMON_TOKENS.WETH)).val
                  = calls[j].args.amountIn
        ELSE calls[j].value = <<>>

C9_Witness ==
  /\ InSwap
  /\ IsEthInput(params.tokenIn)
  /\ \E j \in CallIndices :
       IsRouterTx(calls[j]) /\ calls[j].value # <<>> /\ calls[j].value[1] > 0

\* C10: whatever the call it wraps does, an agent tool returns a string and
\* throws no error
C10_ToolsNeverThrow == tool.status # "threw"


-----------------------------------------------------------------------------
(* How failures leave the swap service *)

Failed == pc = "done" /\ outcome.kind = "threw"

\* the message of the error starts with the given wrapper and still carries
\* an underlying message
WrappedBy(error, wrapper) ==
  /\ Len(error.prefix) > 0
  /\ error.prefix[1] = wrapper
  /\ error.cause # "none"

\* C11: every failure of getSwapQuote - token metadata read, amount
\* conversion or quoter call - is surfaced as 'Failed to get swap quote: '
\* followed by the underlying message
C11_QuoteFailuresAreWrapped ==
  (op = "getSwapQuote" /\ Failed)
    => WrappedBy(outcome.error, "Failed to get swap quote: ")

\* the underlying error of a failed swapTokens said 'insufficient funds'
InsufficientFundsFailure ==
  sv.set /\ sv.error.cause = "insufficient funds"

\* C12: a swapTokens that fails on an 'insufficient funds' error surfaces an
\* error that contains the caller's native balance and the requested amount
C12_InsufficientFundsNamesBalanceAndAmount ==
  (op = "swapTokens" /\ Failed /\ InsufficientFundsFailure)
    => /\ "balance" \in DOMAIN outcome.error
       /\ "amount" \in DOMAIN outcome.error
       /\ outcome.error.amount = params.amount
       /\ \E wei \in BalanceInputs :
            outcome.error.balance = formatUnits(wei, ETHER_DECIMALS)

\* C13: every other failure of swapTokens, in whichever step, is re-thrown as
\* 'Failed to execute swap: ' followed by the original message
C13_OtherFailuresAreWrapped ==
  (op = "swapTokens" /\ Failed /\ ~InsufficientFundsFailure)
    => WrappedBy(outcome.error, "Failed to execute swap: ")


-----------------------------------------------------------------------------
(* The answer of a token search *)

SearchClasses == {"langchain_SearchTokenByTickerTool", "SearchTokenByTickerTool"}

\* a search tool has answered a response with at least one pair
SearchAnswered ==
  /\ tool.status = "returned"
  /\ tool.class \in SearchClasses
  /\ tool.r = "ok"
  /\ Len(tool.pairs) >= 1

\* the 24-hour volume the response gives for the pair at this address
VolumeAt(pairs, address) ==
  pairs[CHOOSE j \in 1..Len(pairs) : pairs[j].address = address].h24

\* C14: for a response with n >= 1 pairs the search returns min(n, 3)
\* results, which are pairs of the response, none of a lower 24-hour volume
\* than a pair left out, listed by descending volume
C14_TopThreeByVolume ==
  SearchAnswered =>
    LET results == tool.result.text[1].results
        n == Len(tool.pairs)
        kept == {results[i].address : i \in 1..Len(results)}
    IN /\ Len(results) = (IF n < 3 THEN n ELSE 3)
       /\ Cardinality(kept) = Len(results)
       /\ kept \subseteq {tool.pairs[j].address : j \in 1..n}
       /\ \A i \in 1..Len(results) :
            results[i].volume_24h
              = (IF VolumeAt(tool.pairs, results[i].address) = 0
                 THEN <<"N", "/", "A">>
                 ELSE IntToDigits(VolumeAt(tool.pairs, results[i].address)))
       /\ \A i, k \in 1..Len(results) :
            i < k => VolumeAt(tool.pairs, results[i].address)
                       >= VolumeAt(tool.pairs, results[k].address)
       /\ \A j \in 1..n :
            tool.pairs[j].address \notin kept =>
              \A a \in kept : tool.pairs[j].h24 <= VolumeAt(tool.pairs, a)

\* five pairs of distinct volumes, the top three of them returned
C14_Witness ==
  /\ SearchAnswered
  /\ Len(tool.pairs) = 5
  /\ Cardinality({tool.pairs[j].h24 : j \in 1..5}) = 5
  /\ Len(tool.result.text[1].results) = 3
  /\ tool.result.text[1].results[1].address # 1


-----------------------------------------------------------------------------
(* Construction *)

\* the configuration lacks a usable private key, names a chain outside the
\* supported list, or leaves the RPC URL to a chain that has no default
BadConfig(config) ==
  \/ config.privateKey = <<>>
  \/ ~config.privateKey[1].isString
  \/ Len(config.privateKey[1].text) < 2
  \/ SubSeq(config.privateKey[1].text, 1, 2) # <<"0", "x">>
  \/ (config.chain # <<>> /\ config.chain[1] \notin {MAINNET_ID, KATANA_ID})
  \/ /\ config.rpcUrl = <<>>
     /\ config.chain # <<>>
     /\ config.chain[1] # MAINNET_ID

\* C15: the constructor raises an error, and yields no instance, for every
\* configuration whose private key is missing or no 0x string, whose chain
\* is not supported, or that has no RPC URL while the chain has no default
C15_BadConfigFailsAtConstruction ==
  (pureIn.fn = "construct" /\ pureOut.status # "pending"
     /\ BadConfig(pureIn.config))
    => pureOut.status = "threw"

\* katana with a good key and no RPC URL is refused
C15_Witness ==
  /\ pureIn.fn = "construct"
  /\ pureIn.config.privateKey = <<[isString |-> TRUE, text |-> PRIVATE_KEY]>>
  /\ pureIn.config.chain = <<KATANA_ID>>
  /\ pureIn.config.rpcUrl = <<>>
  /\ pureOut.status = "threw"


-----------------------------------------------------------------------------
(* The ranges of SwapParams *)

\* amount is a decimal number that is not negative
AmountInRange(amount) ==
  /\ Len(amount) > 0
  /\ amount[1] # "-"
  /\ parseUnits(amount, MaxDecimals).ok

\* slippagePercentage, its default included, lies in [0, 100)
SlippageInRange(slippagePercentage) ==
  /\ EffectiveSlippage(slippagePercentage) >= 0
  /\ EffectiveSlippage(slippagePercentage) < 100000

QuoteReturned ==
  op = "getSwapQuote" /\ pc = "done" /\ outcome.kind = "returned"

TransactionSubmitted ==
  op = "swapTokens" /\ \E i \in CallIndices : calls[i].api = "writeContract"

\* C16: a quote is returned and a transaction is submitted only for an
\* amount that is a non-negative decimal and a slippagePercentage in [0, 100)
C16_ParamsInRange ==
  (QuoteReturned \/ TransactionSubmitted)
    => /\ AmountInRange(params.amount)
       /\ SlippageInRange(params.slippagePercentage)


-----------------------------------------------------------------------------
(* Tokens that are neither a symbol nor an address *)

\* 0x and 40 hex digits
WellFormedAddress(token) ==
  /\ Len(token) = 42
  /\ SubSeq(token, 1, 2) = <<"0", "x">>
  /\ \A i \in 3..42 : token[i] \in HexChars

Malformed(token) ==
  /\ toUpperCase(token) \notin {ETH_SYM, WETH_SYM, USDC_SYM, USDT_SYM, DAI_SYM}
  /\ ~WellFormedAddress(token)

\* the error of the token layer for a string that is no address
IsAddressError(error) ==
  error = [prefix |-> <<>>, cause |-> "Token address lookup not implemented yet"]

IsQuoterCall(c) ==
  c.address = UNISWAP_V3_QUOTER /\ c.functionName = "quoteExactInputSingle"

-----------------------------------------------------------------------------
(* The identity under which a side is reported *)

SwapReturned ==
  op = "swapTokens" /\ pc = "done" /\ outcome.kind = "returned"

\* C18: in a returned SwapQuote and a returned SwapResult a side given as
\* ETH is reported as ETH, not as the wrapped token used in the calls
C18_EthReportedAsEth ==
  /\ QuoteReturned =>
       /\ IsEthInput(params.tokenIn) =>
            /\ outcome.value.tokenIn.address = COMMON_TOKENS.ETH
            /\ outcome.value.tokenIn.symbol = ETH_SYM
       /\ IsEthInput(params.tokenOut) =>
            /\ outcome.value.tokenOut.address = COMMON_TOKENS.ETH
            /\ outcome.value.tokenOut.symbol = ETH_SYM
  /\ SwapReturned =>
       /\ IsEthInput(params.tokenIn) => outcome.value.tokenIn = ETH_SYM
       /\ IsEthInput(params.tokenOut) => outcome.value.tokenOut = ETH_SYM


-----------------------------------------------------------------------------
(* The balance tool *)

BalanceAnswered ==
  /\ tool.status \in {"returned", "threw"}
  /\ tool.class \in {"wallet_EvmBalanceTool", "index_EvmBalanceTool"}
  /\ tool.r = "ok"

\* C19: check_eth_balance returns the native balance, in ETH, of the address
\* given in its input
C19_BalanceOfGivenAddress ==
  BalanceAnswered =>
    /\ tool.status = "returned"
    /\ tool.result.text
         = <<formatUnits(tool.balanceOf[tool.input.address], ETHER_DECIMALS),
             " ETH">>


-----------------------------------------------------------------------------
(* The gas estimators *)

GasClasses == {"GasEstimatorTool", "gas_GasEstimatorTool"}

\* an estimator was given a recipient and a decimal amount of ETH, and the
\* gas price was read
GasAsked ==
  /\ tool.status = "returned"
  /\ tool.class \in GasClasses
  /\ tool.r = "ok"
  /\ tool.input.to # <<>>
  /\ tool.input.value # <<>>
  /\ Len(tool.input.value[1]) > 0
  /\ \A i \in 1..Len(tool.input.value[1]) :
       IsDigit(tool.input.value[1][i]) \/ tool.input.value[1][i] = "."

\* the digits of eth * 10^18, for a decimal string eth
EthInWei(eth) ==
  LET dot == IF \E i \in 1..Len(eth) : eth[i] = "."
             THEN CHOOSE i \in 1..Len(eth) : eth[i] = "." ELSE Len(eth) + 1
      shifted == SubSeq(eth, 1, dot - 1) \o SubSeq(eth, dot + 1, Len(eth))
                   \o [i \in 1..(18 - (IF dot > Len(eth) THEN 0
                                         ELSE Len(eth) - dot)) |-> "0"]
      first == IF \E i \in 1..Len(shifted) : shifted[i] # "0"
               THEN CHOOSE i \in 1..Len(shifted) :
                      shifted[i] # "0" /\ \A k \in 1..(i - 1) : shifted[k] = "0"
               ELSE Len(shifted)
  IN SubSeq(shifted, first, Len(shifted))

\* C20: both estimators take value as an amount of ETH: the estimate is
\* asked for a transfer of value * 10^18 wei, the same in both
C20_ValueIsInEth ==
  GasAsked =>
    /\ tool.requested = <<EthInWei(tool.input.value[1])>>
    /\ ServiceTransferValue(tool.input.value[1])
         = ToolTransferValue(tool.input.value[1])

-----------------------------------------------------------------------------
(* The router call of swapTokens *)

\* C21: the recipient of the router call is the caller's own address
\* whenever tokenOut is ETH, whatever the recipient parameter; otherwise it is
\* the recipient parameter when given and the caller's own address when not
C21_RecipientOfRouterCall ==
  InSwap =>
    \A j \in CallIndices :
      IsRouterTx(calls[j]) =>
        calls[j].args.recipient =
          IF IsEthInput(params.tokenOut) THEN ACCOUNT
          ELSE IF params.recipient # <<>> THEN params.recipient
          ELSE ACCOUNT

C21_Witness ==
  /\ InSwap
  /\ IsEthInput(params.tokenOut)
  /\ params.recipient = OTHER_RECIPIENT
  /\ \E j \in CallIndices :
       IsRouterTx(calls[j]) /\ calls[j].args.recipient = ACCOUNT

IsConfirmationWait(c) == c.api = "waitForTransactionReceipt"

\* C22: swapTokens returns a SwapResult only after the router submission has
\* returned a hash and the wait for that hash has completed; the result
\* carries that hash, and its amountIn and expectedAmountOut are the amounts
\* of the quote of the same invocation in human units
C22_ResultAfterSubmissionAndWait ==
  SwapReturned =>
    /\ \E j \in CallIndices :
         /\ IsRouterTx(calls[j])
         /\ IsConfirmationWait(calls[Len(calls)])
         /\ j < Len(calls)
         /\ calls[Len(calls)].args.hash = SWAP_TX
    /\ outcome.value.hash = SWAP_TX
    /\ outcome.value.amountIn
         = formatUnits(qv.amountIn, qv.tokenInInfo.decimals)
    /\ outcome.value.expectedAmountOut
         = formatUnits(qv.amountOut, qv.tokenOutInfo.decimals)

C22_Witness ==
  /\ SwapReturned
  /\ outcome.value.hash = SWAP_TX
  /\ outcome.value.amountIn # params.amount
  /\ qv.amountOut > 1

\* C23: the deadline of the router call is the time of its submission plus
\* 20 minutes, also when an allowance read and an approval come before it
C23_DeadlineFromSubmission ==
  [][(pc = "s_router" /\ Len(calls') > Len(calls))
       => calls'[Len(calls')].args.deadline = chain.now + 60 * 20]_vars

-----------------------------------------------------------------------------
(* The transactions of one swapTokens invocation *)

IsTransaction(c) == c.api \in {"writeContract", "sendTransaction"}

\* the approval was submitted and a later step of the try block has failed
FailedAfterApproval ==
  InSwap /\ sv.set /\ sv.approval # <<>> /\ sv.error # NoError

\* C24: when the router call or the confirmation wait fails after an approval
\* was submitted, swapTokens submits nothing more (no revocation, no second
\* approval, no second router call), the approval stays in place and the
\* invocation ends with an error
C24_NoRecoveryAfterApproval ==
  FailedAfterApproval =>
    /\ Cardinality({i \in CallIndices : IsApprovalTx(calls[i])}) = 1
    /\ Cardinality({i \in CallIndices : IsRouterTx(calls[i])}) <= 1
    /\ \A i \in CallIndices :
         IsTransaction(calls[i]) => IsApprovalTx(calls[i]) \/ IsRouterTx(calls[i])
    /\ \A i \in CallIndices :
         IsApprovalTx(calls[i]) => calls[i].args.amount = sv.amountIn
    /\ chain.pendingApproval = <<sv.amountIn>> \/ chain.allowance = sv.amountIn
    /\ pc \in {"s_catch", "done"}
    /\ pc = "done" => outcome.kind = "threw"

C24_Witness ==
  /\ FailedAfterApproval
  /\ pc = "done"
  /\ \E j \in CallIndices : IsRouterTx(calls[j])
  /\ IsConfirmationWait(calls[Len(calls)])

\* C26: when swapTokens submits the router call for a tokenIn other than ETH,
\* the allowance of the router on chain is at least amountIn: an approval
\* that was needed has been mined by then
C26_AllowanceOnChainAtSubmission ==
  [][(pc = "s_router" /\ Len(calls') > Len(calls) /\ ~sv.isETHIn)
       => chain.allowance >= sv.amountIn]_vars

\* C27: swapTokens returns a SwapResult only when the receipt of the router
\* transaction has status success; a mined but reverted transaction is a
\* failure
C27_ResultOnlyOnSuccessReceipt ==
  SwapReturned => outcome.status = "success"

\* C30: one swapTokens invocation submits at most one approval and at most
\* one router transaction, and no approval after the router transaction, on
\* every path, the failing ones included
C30_AtMostOneOfEach ==
  InSwap =>
    /\ Cardinality({i \in CallIndices : IsApprovalTx(calls[i])}) <= 1
    /\ Cardinality({i \in CallIndices : IsRouterTx(calls[i])}) <= 1
    /\ \A i, j \in CallIndices :
         (IsRouterTx(calls[i]) /\ IsApprovalTx(calls[j])) => j < i

C30_Witness ==
  /\ InSwap
  /\ pc = "done"
  /\ outcome.kind = "threw"
  /\ \E i \in CallIndices : IsApprovalTx(calls[i])
  /\ \E j \in CallIndices : IsRouterTx(calls[j])

-----------------------------------------------------------------------------
(* The swap tools *)

IsQuoterRead(c) ==
  /\ c.api = "readContract"
  /\ c.address = UNISWAP_V3_QUOTER
  /\ c.functionName = "quoteExactInputSingle"

\* round(slippagePercentage * 100) for a slippage that is not negative, in
\* basis points
RoundedBps(slippage) ==
  CHOOSE b \in (slippage \div 10)..(slippage \div 10 + 1) :
    10 * b - 5 <= slippage /\ slippage < 10 * b + 5

\* a * m / 10000 in bigint arithmetic, for a >= 0: the quotient is cut
\* toward zero
CutMulDiv10000(a, m) ==
  IF m >= 0 THEN FloorMulDiv10000(a, m) ELSE 0 - FloorMulDiv10000(a, 0 - m)

\* swap_tokens has reached its call of swapTokens
InToolSwap ==
  /\ tool.status # "idle"
  /\ tool.class = "SwapTokensTool"
  /\ op = "swapTokens"

\* swap_tokens has answered the result of a swap
ToolSwapped ==
  InToolSwap /\ tool.status = "returned" /\ outcome.kind = "returned"

\* C28: the amountOutMinimum of the router call is the slippage formula
\* applied to the answer of the one quoter call swapTokens made itself, and
\* the expectedAmountOut that is reported comes from that same answer, also
\* when the tool's earlier quote got another answer and although the minimum
\* went through its decimal string
C28_MinimumFromTheReportedQuote ==
  InToolSwap =>
    LET slippage == IF tool.input.slippagePercentage = <<>> THEN 500
                    ELSE tool.input.slippagePercentage[1]
    IN /\ \A j \in CallIndices :
            IsRouterTx(calls[j]) =>
              /\ calls[j].args.amountOutMinimum
                   = CutMulDiv10000(qv.amountOut,
                                    10000 - RoundedBps(slippage))
              /\ Cardinality({i \in 1..j : IsQuoterRead(calls[i])}) = 2
       /\ ToolSwapped =>
            tool.result.text.expectedAmountOut
              = formatUnits(qv.amountOut, qv.tokenOutInfo.decimals)

C28_Witness ==
  /\ ToolSwapped
  /\ tool.quote[1].tokenOut.amount # tool.result.text.expectedAmountOut
  /\ \E j \in CallIndices :
       IsRouterTx(calls[j]) /\ calls[j].args.amountOutMinimum = 995

\* getSwapQuote is running or has ended, called by a tool
InQuote == op = "getSwapQuote" /\ pc # "idle"

\* C29: getSwapQuote and get_swap_quote only read: whatever the input and
\* whether a quote or an error comes out, no approval and no router
\* transaction is submitted, so nothing changes on chain
C29_QuoteOnlyReads ==
  InQuote =>
    /\ \A i \in CallIndices :
         /\ ~IsTransaction(calls[i])
         /\ ~IsApprovalTx(calls[i])
         /\ ~IsRouterTx(calls[i])
         /\ calls[i].api = "readContract"
    /\ chain.pendingApproval = <<>>

C29_Witness ==
  /\ InQuote
  /\ tool.status = "returned"
  /\ tool.class = "GetSwapQuoteTool"
  /\ outcome.kind = "returned"
  /\ \E i \in CallIndices : IsQuoterRead(calls[i])

-----------------------------------------------------------------------------
(* Address validation of sendTokens, approveSpending and estimateGas *)

\* a string that fails the validation: not 0x and 40 hex digits, or in mixed
\* case with a wrong checksum
NotAnAddress(a) == ~WellFormedAddress(a) \/ a = BAD_CHECKSUM

NativeToken(token) == toLowerCase(token) = <<"e","t","h">>

\* the running operation was given a recipient, spender or token that fails
\* the validation
BadAddressGiven ==
  \/ op = "sendTokens"
       /\ (NotAnAddress(params.to)
             \/ (~NativeToken(params.token) /\ NotAnAddress(params.token)))
  \/ op = "approveSpending"
       /\ (NotAnAddress(params.spender) \/ NotAnAddress(params.token))
  \/ op = "estimateGas" /\ NotAnAddress(params.to)

IsInvalidAddressError(error) ==
  error.cause \in {"Invalid address", "Token address lookup not implemented yet"}

=============================================================================
